---- MODULE Spec2Model ----
(***************************************************************************)
(* A model of kercylan98/chrono's hierarchical timing wheel (package       *)
(* timing): timers, buckets, wheel levels, the DelayQueue worker that      *)
(* drives the wheel, Timer.Stop, and the After / Loop entry points.        *)
(*                                                                         *)
(* Every goroutine of the program is a process of the model.  A step of    *)
(* the model is one access to shared memory (an atomic load, store, swap   *)
(* or CAS, or one critical section of a mutex) together with the local     *)
(* computation around it.                                                  *)
(***************************************************************************)
EXTENDS Integers, Sequences, FiniteSets, TLC

\* ------------------------------------------------------------ bounds ----
Tick == 1
WheelSize == 2
StartMs == 2
MaxTime == 5
MaxDelay == 3
NumTimers == 2
NumStoppers == 2

MaxInterval == 2
MaxTimes == 2
NumLoops == 1

Timers == 1..NumTimers
LoopTimers == 1..NumLoops
LoopDelays == 0..MaxDelay
\* The intervals and counts NewLoopTask is given: whole milliseconds of either
\* sign; a negative count is a loop without end.
LoopIntervals == ((0 - MaxInterval)..MaxInterval) \ {0}
LoopCounts == (0 - 1)..MaxTimes
\* Cron timers; a cron expression is taken by its period p: it matches the
\* instants that are multiples of p. A cron task is run at most MaxRuns times.
NumCrons == 2
MaxPeriod == 2
MaxRuns == 3
CronTimers == 1..NumCrons
CronPeriods == 1..MaxPeriod
Stoppers == 1..NumStoppers
Delays == {0 - 1} \cup (0..MaxDelay)
Nil == <<>>
NumNames == 1
Names == 1..NumNames
\* The durations given to named.After, and the most errors Cron returns.
MaxNamedDelay == 1
NamedDelays == 0..MaxNamedDelay
MaxErrs == 1
\* The goroutines that can be running DelayQueue.wakeup at one time.
NumWorkers == 3
WorkerIds == 1..NumWorkers
\* The delays given to After where the DelayQueue is taken statement by
\* statement.
MaxQueueDelay == 2
QueueDelays == 0..MaxQueueDelay
NumQueueStoppers == 1
QueueStoppers == 1..NumQueueStoppers
\* The delays given to After where the bucket locks are followed.
MaxLockDelay == 1
LockDelays == 0..MaxLockDelay
\* The priority queue on its own: the most entries, the priorities, the
\* capacities newPriorityQueue is given, the buckets the entries refer to.
MaxHeapLen == 5
MaxPriority == 2
Priorities == 0..MaxPriority
PQCapacities == {1, 26, 52}
\* The most entries where the capacity is looked at, with one bucket and the
\* two ends of the priorities.
MaxCapLen == 8
CapPriorities == {0, MaxPriority}

\* ------------------------------------------------- pure helpers --------
\* Go's % on int64 truncates towards zero.
GoRem(x, m) == IF x >= 0 THEN x % m ELSE 0 - ((0 - x) % m)
GoDiv(x, m) == IF x >= 0 THEN x \div m ELSE 0 - ((0 - x) \div m)

Truncate(x, m) == IF m <= 0 THEN x ELSE x - GoRem(x, m)

RECURSIVE TickOf(_)
\* The tick of wheel level l: level 0 has the configured tick, an overflow
\* wheel is built withTick(parent.interval).
TickOf(l) == IF l = 0 THEN Tick ELSE TickOf(l - 1) * WheelSize

Interval(l) == TickOf(l) * WheelSize

\* The deepest level a timer of the bounded horizon can be routed to.
MaxLevel ==
    CHOOSE L \in 0..MaxTime :
        /\ Truncate(StartMs, TickOf(L)) + Interval(L) > MaxTime
        /\ \A K \in 0..(L - 1) : Truncate(StartMs, TickOf(K)) + Interval(K) <= MaxTime

Levels == 0..MaxLevel
Slots == 0..(WheelSize - 1)
Buckets == Levels \X Slots

\* buckets[expiration/tick%size] of wheel level l
SlotOf(exp, l) == GoRem(GoDiv(exp, TickOf(l)), WheelSize)
BucketOf(exp, l) == <<l, SlotOf(exp, l)>>

Range(s) == {s[i] : i \in 1..Len(s)}
RemoveAt(s, i) == SubSeq(s, 1, i - 1) \o SubSeq(s, i + 1, Len(s))
IndexOf(s, x) == CHOOSE i \in 1..Len(s) : s[i] = x

\* list.List.Remove(e): unlinks e only if e.list == l.
ListRemove(s, e) == IF e \in Range(s) THEN RemoveAt(s, IndexOf(s, e)) ELSE s

\* ----------------------------------------------- priority queue --------
Less(h, i, j) == h[i + 1].priority < h[j + 1].priority
Swap(h, i, j) == [h EXCEPT ![i + 1] = h[j + 1], ![j + 1] = h[i + 1]]

RECURSIVE HeapUp(_, _)
HeapUp(h, j) ==
    LET i == (j - 1) \div 2 IN
    IF j = 0 \/ i = j \/ ~Less(h, j, i) THEN h ELSE HeapUp(Swap(h, i, j), i)

\* down() that never looks at the right child.
RECURSIVE HeapDownLeftOnly(_, _, _)
HeapDownLeftOnly(h, i, n) ==
    LET j == 2 * i + 1
    IN  IF j >= n THEN h
        ELSE IF ~Less(h, j, i) THEN h
        ELSE HeapDownLeftOnly(Swap(h, i, j), j, n)

RECURSIVE HeapDown(_, _, _)
HeapDown(h, i, n) ==
    LET j1 == 2 * i + 1
        j  == IF j1 + 1 < n /\ Less(h, j1 + 1, j1) THEN j1 + 1 ELSE j1
    IN  IF j1 >= n THEN h
        ELSE IF ~Less(h, j, i) THEN h
        ELSE HeapDown(Swap(h, i, j), j, n)

\* heap.Push(&q.priorityQueue, item)
HeapPush(h, item) == HeapUp(Append(h, item), Len(h))

\* heap.Remove(pq, 0)
HeapRemoveHead(h) ==
    LET n == Len(h) - 1 IN
    IF n = 0 THEN <<>>
    ELSE SubSeq(HeapDown(Swap(h, 0, n), 0, n), 1, n)

\* priorityQueue.Push, the capacity afterwards, n and c being len and cap
\* before: if n+1 > c { make(priorityQueue[T], n, c*2) }
PushCap(n, c) == IF n + 1 > c THEN c * 2 ELSE c

\* Pop shrinking as the description has it, below one quarter of the capacity.
PopCapQuarter(n, c) == IF n < GoDiv(c, 4) /\ c > 25 THEN GoDiv(c, 2) ELSE c

\* priorityQueue.Pop, the capacity afterwards, n and c being len and cap
\* before: if n < (c/2) && c > 25 { make(priorityQueue[T], n, c/2) }
PopCap(n, c) == IF n < GoDiv(c, 2) /\ c > 25 THEN GoDiv(c, 2) ELSE c

\* PeekAndShift that takes a head whose priority equals max for not yet due.
PeekAndShiftStrict(h, max) ==
    IF Len(h) = 0 THEN <<Nil, 0, h>>
    ELSE IF h[1].priority >= max THEN <<h[1], h[1].priority - max, h>>
    ELSE <<h[1], 0, HeapRemoveHead(h)>>

\* priorityQueue.PeekAndShift(max): <<item, delta, queue afterwards>>
PeekAndShift(h, max) ==
    IF Len(h) = 0 THEN <<Nil, 0, h>>
    ELSE IF h[1].priority > max THEN <<h[1], h[1].priority - max, h>>
    ELSE <<h[1], 0, HeapRemoveHead(h)>>

\* ------------------------------------------------------------ state ----
VARIABLES
    now,          \* the injected clock (timeGetter), milliseconds
    created,      \* created[t]: newTimer has run for t
    returned,     \* returned[t]: After / Loop has handed t to its caller
    texpiration,  \* timerImpl.expiration
    tbucket,      \* timerImpl.bucket (Nil or a bucket)
    telement,     \* timerImpl.element (Nil or a list element)
    tstopped,     \* timerImpl.stopped
    tpushes,      \* number of list elements ever created for t
    current,      \* wheelInternalImpl.current, per level
    overflow,     \* overflow[l]: level l has created its overflow wheel
    btimers,      \* bucketImpl.timers: the list, as a sequence of elements
    bexpiration,  \* bucketImpl.expiration
    pq,           \* DelayQueue.priorityQueue
    qstate,       \* DelayQueue.state
    qn,           \* DelayQueue.n
    wpc,          \* where the DelayQueue worker goroutine is
    witem,        \* the bucket the worker dequeued
    wlvl,         \* advanceClock: the level the worker is about to enter
    wx,           \* advanceClock: the value handed to that level
    calls,        \* the contract calls in progress
    stops,        \* the Stop calls, one per caller
    pending,      \* pending[t]: executor goroutines spawned and not yet run
    dispatched,   \* dispatched[t]: tasks of t handed to the executor so far
    executed,     \* executed[t]: times t's task has been started
    linterval,    \* loopTask.interval of t's task (0: t is not a loop timer)
    ltimes,       \* loopTask.times of t's task
    lcount,       \* the times argument NewLoopTask was given for t's task
    invoked,      \* invoked[t]: times the inner task of t's loop task has run
    deferring,    \* deferring[t]: t's task function is at its deferred call
    cexpr,        \* cexpr[t]: the expression of t's cron task (0: not a cron timer)
    cnow,         \* cnow[t]: the variable now that wheel.Cron's closure captured
    registry,     \* named.timers: the timer each name holds (0: none)
    nop,          \* the named call that holds named.lock (Nil: the lock is free)
    tname,        \* tname[t]: the name t was stored under (0: never stored)
    cronErrs,     \* the Cron calls that returned an error: <<name, timer held>>
    executor,     \* Configuration.executor
    tpanic,       \* tpanic[t]: a run of t's task has panicked
    mcall,        \* the call of NextMoment made: its arguments and result (Nil: none)
    workers,      \* the goroutines running DelayQueue.wakeup, each with its locals
    wakeupCtx,    \* DelayQueue.wakeupCtx / wakeupCancel: the context they refer to
    pqcap,        \* cap(priorityQueue): the capacity of the heap's backing array
    pqcall        \* the last call of PeekAndShift: its argument and results (Nil: none)

vars == <<now, created, returned, texpiration, tbucket, telement, tstopped,
          tpushes, current, overflow, btimers, bexpiration, pq, qstate, qn,
          wpc, witem, wlvl, wx, calls, stops, pending, dispatched, executed,
          linterval, ltimes, lcount, invoked, deferring, cexpr, cnow,
          registry, nop, tname, cronErrs, executor, tpanic, mcall, workers,
          wakeupCtx, pqcap, pqcall>>

timerVars == <<texpiration, tbucket, telement, tstopped, tpushes>>
wheelVars == <<current, overflow>>
bucketVars == <<btimers, bexpiration>>
queueVars == <<pq, qstate, qn>>
workerVars == <<wpc, witem, wlvl, wx>>
execVars == <<pending, dispatched, executed>>
loopVars == <<linterval, ltimes, lcount, invoked, deferring>>
cronVars == <<cexpr, cnow>>
namedVars == <<registry, nop, tname, cronErrs>>
panicVars == <<executor, tpanic>>
momentVars == <<mcall>>
driverVars == <<workers, wakeupCtx>>
heapVars == <<pqcap, pqcall>>
apiVars == <<cronVars, namedVars, panicVars, momentVars, heapVars, driverVars>>

\* The executors: ExecutorFn calls the task, ExecutorFN calls it under a
\* deferred recover. NewConfig installs the first.
ExecutorFn == "ExecutorFn"
ExecutorFN == "ExecutorFN"
defaultExecutor == ExecutorFn

delayQueueSleeping == 0
delayQueueWorking == 1

\* init storing the start as it is given, without chrono.Truncate.
InitCurrentAsGiven(startMs, l) == IF startMs = 0 THEN now ELSE startMs

\* wheelInternalImpl.init: a start of 0 means "now".
InitCurrent(startMs, l) ==
    Truncate(IF startMs = 0 THEN now ELSE startMs, TickOf(l))

\* A contract call: the timer, where the call is, the wheel level it is in, its
\* locals (expiration and current as loaded, the list element it created),
\* who called (After, Loop, the flush goroutine, a loop's deferred reschedule)
\* and, for After and Loop, the duration argument of that caller.
NewCall(t, by, d) == [t |-> t, pc |-> "contract", lvl |-> 0, exp |-> 0,
                      cur |-> 0, k |-> 0, by |-> by, d |-> d]

IdleStop == [pc |-> "idle", t |-> 0, b |-> Nil, result |-> "none",
             unlinked |-> FALSE]

\* A goroutine running wakeup: where it is, the item and delta PeekAndShift
\* gave it, and the context its select waits on ("field": the one the
\* DelayQueue's fields refer to, "orphan": one the fields referred to before).
NoWorker == [pc |-> "none", item |-> Nil, delta |-> 0, ctx |-> "none"]

Init ==
    /\ now = StartMs
    /\ created = [t \in Timers |-> FALSE]
    /\ returned = [t \in Timers |-> FALSE]
    /\ texpiration = [t \in Timers |-> 0]
    /\ tbucket = [t \in Timers |-> Nil]
    /\ telement = [t \in Timers |-> Nil]
    /\ tstopped = [t \in Timers |-> FALSE]
    /\ tpushes = [t \in Timers |-> 0]
    /\ current = [l \in Levels |-> IF l = 0 THEN Truncate(StartMs, Tick) ELSE 0]
    /\ overflow = [l \in Levels |-> FALSE]
    /\ btimers = [b \in Buckets |-> <<>>]
    /\ bexpiration = [b \in Buckets |-> 0]
    /\ pq = <<>>
    /\ qstate = delayQueueSleeping
    /\ qn = 0
    /\ wpc = "none"
    /\ witem = Nil
    /\ wlvl = 0
    /\ wx = 0
    /\ calls = {}
    /\ stops = [p \in Stoppers |-> IdleStop]
    /\ pending = [t \in Timers |-> 0]
    /\ dispatched = [t \in Timers |-> 0]
    /\ executed = [t \in Timers |-> 0]
    /\ linterval = [t \in Timers |-> 0]
    /\ ltimes = [t \in Timers |-> 0]
    /\ lcount = [t \in Timers |-> 0]
    /\ invoked = [t \in Timers |-> 0]
    /\ deferring = [t \in Timers |-> FALSE]
    /\ cexpr = [t \in Timers |-> 0]
    /\ cnow = [t \in Timers |-> 0]
    /\ registry = [n \in Names |-> 0]
    /\ nop = Nil
    /\ tname = [t \in Timers |-> 0]
    /\ cronErrs = {}
    /\ executor = defaultExecutor
    /\ tpanic = [t \in Timers |-> FALSE]
    /\ mcall = Nil
    /\ workers = [w \in WorkerIds |-> NoWorker]
    /\ wakeupCtx = "background"
    /\ pqcap = WheelSize
    /\ pqcall = Nil

\* A task has panicked under an executor that does not recover: the panic
\* leaves the goroutine of go Execute(task) once the task function's deferred
\* call has run.
TaskPanicked ==
    \E t \in Timers : tpanic[t] /\ ~deferring[t] /\ executor = ExecutorFn

\* A panic that nothing recovers ends the program: every goroutine stops.
Crashed ==
    \/ \E p \in Stoppers : stops[p].result = "panic"
    \/ TaskPanicked

\* ------------------------------------------------------- the clock -----
\* Time passes.
ClockTick ==
    /\ ~Crashed
    /\ now < MaxTime
    /\ now' = now + 1
    /\ UNCHANGED <<apiVars, loopVars, created, returned, timerVars, wheelVars, bucketVars,
                   queueVars, workerVars, calls, stops, execVars>>

\* ------------------------------------------------------- contract ------
\* What a contract call leaves behind when it returns to its caller: After,
\* Loop and Cron then return the timer, which makes it known to the program.
ReturnedAfter(c) ==
    IF c.by \in {"After", "Loop", "Cron"} THEN [returned EXCEPT ![c.t] = TRUE]
    ELSE returned

Replace(c, d) == (calls \ {c}) \cup {d}

\* The overflow locks a call holds: a call that is inside level l > 0 took
\* overflowLock of every level below, and holds them until add returns.
HoldsLock(c, l) == c.lvl > l

\* The worker holds overflowLock[l].RLock while advanceClock is inside a
\* level above l + 1 (it is about to take the RLock of level wlvl - 1).
WorkerHoldsRLock(l) == wpc = "advance" /\ wlvl >= l + 2

\* wheel.After: newTimer(ToMillisecond(Now().Add(duration)), task.Execute),
\* then contract(timer) on the caller's goroutine.
After(t, d) ==
    /\ ~Crashed
    /\ ~created[t]
    /\ \A u \in Timers : u < t => created[u]
    /\ now + d <= MaxTime
    /\ created' = [created EXCEPT ![t] = TRUE]
    /\ texpiration' = [texpiration EXCEPT ![t] = now + d]
    /\ calls' = calls \cup {NewCall(t, "After", d)}
    /\ UNCHANGED <<now, apiVars, loopVars, returned, tbucket, telement, tstopped, tpushes,
                   wheelVars, bucketVars, queueVars, workerVars, stops,
                   execVars>>

\* contract: if timer.Stopped() { return }
contractStopped(c) ==
    /\ ~Crashed
    /\ c.pc = "contract"
    /\ IF tstopped[c.t]
       THEN /\ calls' = calls \ {c}
            /\ returned' = ReturnedAfter(c)
       ELSE /\ calls' = Replace(c, [c EXCEPT !.pc = "add", !.lvl = 0])
            /\ UNCHANGED returned
    /\ UNCHANGED <<now, apiVars, loopVars, created, timerVars, wheelVars, bucketVars, queueVars,
                   workerVars, stops, execVars>>

\* add with the first branch one tick wide: a timer due exactly one tick after
\* current is taken for expired.
addExpiredInclusive(c) ==
    /\ ~Crashed
    /\ c.pc = "add"
    /\ texpiration[c.t] <= current[c.lvl] + TickOf(c.lvl)
    /\ calls' = calls \ {c}
    /\ returned' = ReturnedAfter(c)
    /\ pending' = [pending EXCEPT ![c.t] = @ + 1]
    /\ dispatched' = [dispatched EXCEPT ![c.t] = @ + 1]
    /\ UNCHANGED <<now, apiVars, loopVars, created, timerVars, wheelVars, bucketVars, queueVars,
                   workerVars, stops, executed>>

\* wheelInternalImpl.add at level c.lvl, first branch: the timer has expired,
\* add returns false through every level and contract hands the task to the
\* executor: go Execute(timer.getTask()).
addExpired(c) ==
    /\ ~Crashed
    /\ c.pc = "add"
    /\ texpiration[c.t] < current[c.lvl] + TickOf(c.lvl)
    /\ calls' = calls \ {c}
    /\ returned' = ReturnedAfter(c)
    /\ pending' = [pending EXCEPT ![c.t] = @ + 1]
    /\ dispatched' = [dispatched EXCEPT ![c.t] = @ + 1]
    /\ UNCHANGED <<now, apiVars, loopVars, created, timerVars, wheelVars, bucketVars, queueVars,
                   workerVars, stops, executed>>

\* add with the second branch tested first and its lower limit one tick low:
\* a timer at current itself is taken for a bucket.
addPushNoTick(c) ==
    LET exp == texpiration[c.t]
        b   == BucketOf(exp, c.lvl)
        k   == tpushes[c.t] + 1
    IN  /\ ~Crashed
        /\ c.pc = "add"
        /\ exp >= current[c.lvl]
        /\ exp < current[c.lvl] + Interval(c.lvl)
        /\ btimers' = [btimers EXCEPT ![b] = Append(@, <<c.t, k>>)]
        /\ tpushes' = [tpushes EXCEPT ![c.t] = k]
        /\ calls' = Replace(c, [c EXCEPT !.pc = "setBucket", !.exp = exp, !.k = k])
        /\ UNCHANGED <<now, apiVars, loopVars, created, returned, texpiration, tbucket, telement,
                       tstopped, wheelVars, bexpiration, queueVars, workerVars,
                       stops, execVars>>

\* add, second branch, up to bucketImpl.add's critical section:
\* b.rw.Lock(); e := b.timers.PushBack(timer); b.rw.Unlock()
addPush(c) ==
    LET exp == texpiration[c.t]
        b   == BucketOf(exp, c.lvl)
        k   == tpushes[c.t] + 1
    IN  /\ ~Crashed
        /\ c.pc = "add"
        /\ exp >= current[c.lvl] + TickOf(c.lvl)
        /\ exp < current[c.lvl] + Interval(c.lvl)
        /\ btimers' = [btimers EXCEPT ![b] = Append(@, <<c.t, k>>)]
        /\ tpushes' = [tpushes EXCEPT ![c.t] = k]
        /\ calls' = Replace(c, [c EXCEPT !.pc = "setBucket", !.exp = exp, !.k = k])
        /\ UNCHANGED <<now, apiVars, loopVars, created, returned, texpiration, tbucket, telement,
                       tstopped, wheelVars, bexpiration, queueVars, workerVars,
                       stops, execVars>>

\* add, third branch: the timer is beyond this level's interval.  current was
\* loaded before the lock is asked for.
addBeyond(c) ==
    /\ ~Crashed
    /\ c.pc = "add"
    /\ texpiration[c.t] >= current[c.lvl] + Interval(c.lvl)
    /\ calls' = Replace(c, [c EXCEPT !.pc = "overflow", !.cur = current[c.lvl]])
    /\ UNCHANGED <<now, apiVars, loopVars, created, returned, timerVars, wheelVars, bucketVars,
                   queueVars, workerVars, stops, execVars>>

\* The third branch without the test t.overflow == nil: every far-future add
\* builds a wheel and puts it in place of the one there is.
addOverflowRebuilds(c) ==
    LET l == c.lvl IN
    /\ ~Crashed
    /\ c.pc = "overflow"
    /\ \A d \in calls : ~HoldsLock(d, l)
    /\ ~WorkerHoldsRLock(l)
    /\ overflow' = [overflow EXCEPT ![l] = TRUE]
    /\ current' = [current EXCEPT ![l + 1] = InitCurrent(c.cur, l + 1)]
    /\ calls' = Replace(c, [c EXCEPT !.pc = "add", !.lvl = l + 1, !.cur = 0])
    /\ UNCHANGED <<now, apiVars, loopVars, created, returned, timerVars, bucketVars, queueVars,
                   workerVars, stops, execVars>>

\* t.overflowLock.Lock(); if t.overflow == nil { build(current, queue, ...) };
\* return t.overflow.add(timer)   (the lock is released when add returns)
addOverflow(c) ==
    LET l == c.lvl IN
    /\ ~Crashed
    /\ c.pc = "overflow"
    /\ \A d \in calls : ~HoldsLock(d, l)
    /\ ~WorkerHoldsRLock(l)
    /\ IF overflow[l]
       THEN UNCHANGED wheelVars
       ELSE /\ overflow' = [overflow EXCEPT ![l] = TRUE]
            /\ current' = [current EXCEPT ![l + 1] = InitCurrent(c.cur, l + 1)]
    /\ calls' = Replace(c, [c EXCEPT !.pc = "add", !.lvl = l + 1, !.cur = 0])
    /\ UNCHANGED <<now, apiVars, loopVars, created, returned, timerVars, bucketVars, queueVars,
                   workerVars, stops, execVars>>

\* timerImpl.setBucket, first store: t.bucket.Store(&bucket)
setBucket(c) ==
    /\ ~Crashed
    /\ c.pc = "setBucket"
    /\ tbucket' = [tbucket EXCEPT ![c.t] = BucketOf(c.exp, c.lvl)]
    /\ calls' = Replace(c, [c EXCEPT !.pc = "setElement"])
    /\ UNCHANGED <<now, apiVars, loopVars, created, returned, texpiration, telement, tstopped,
                   tpushes, wheelVars, bucketVars, queueVars, workerVars, stops,
                   execVars>>

\* timerImpl.setBucket, second store: t.element = element
setElement(c) ==
    /\ ~Crashed
    /\ c.pc = "setElement"
    /\ telement' = [telement EXCEPT ![c.t] = <<c.t, c.k>>]
    /\ calls' = Replace(c, [c EXCEPT !.pc = "setExpiration"])
    /\ UNCHANGED <<now, apiVars, loopVars, created, returned, texpiration, tbucket, tstopped,
                   tpushes, wheelVars, bucketVars, queueVars, workerVars, stops,
                   execVars>>

\* if b.setExpiration(expiration) { ... }: the swap; add returns true when the
\* value did not change.
setExpiration(c) ==
    LET b == BucketOf(c.exp, c.lvl) IN
    /\ ~Crashed
    /\ c.pc = "setExpiration"
    /\ bexpiration' = [bexpiration EXCEPT ![b] = c.exp]
    /\ IF bexpiration[b] # c.exp
       THEN /\ calls' = Replace(c, [c EXCEPT !.pc = "queueAdd"])
            /\ UNCHANGED returned
       ELSE /\ calls' = calls \ {c}
            /\ returned' = ReturnedAfter(c)
    /\ UNCHANGED <<now, apiVars, loopVars, created, timerVars, wheelVars, btimers, queueVars,
                   workerVars, stops, execVars>>

\* t.queue.Add(b, b.getExpiration()), up to the end of its critical section:
\* q.mu.Lock(); heap.Push(&q.priorityQueue, item); q.mu.Unlock()
queueAdd(c) ==
    LET b == BucketOf(c.exp, c.lvl) IN
    /\ ~Crashed
    /\ c.pc = "queueAdd"
    /\ pq' = HeapPush(pq, [value |-> b, priority |-> bexpiration[b]])
    /\ calls' = Replace(c, [c EXCEPT !.pc = "queueWake"])
    /\ UNCHANGED <<now, apiVars, loopVars, created, returned, timerVars, wheelVars, bucketVars,
                   qstate, qn, workerVars, stops, execVars>>

\* DelayQueue.Add: if q.state.CompareAndSwap(sleeping, working) { go q.wakeup() }
queueWake(c) ==
    /\ ~Crashed
    /\ c.pc = "queueWake"
    /\ IF qstate = delayQueueSleeping
       THEN /\ qstate' = delayQueueWorking
            /\ wpc' = "process"
            /\ calls' = calls \ {c}
            /\ returned' = ReturnedAfter(c)
       ELSE /\ calls' = Replace(c, [c EXCEPT !.pc = "queueN"])
            /\ UNCHANGED <<qstate, wpc, returned>>
    /\ UNCHANGED <<now, apiVars, loopVars, created, timerVars, wheelVars, bucketVars, pq, qn,
                   witem, wlvl, wx, stops, execVars>>

\* q.wakeupCancel(): a worker waiting in its select wakes up.
Cancelled == IF wpc = "sleep" THEN "peek" ELSE wpc

\* DelayQueue.Add, else branch: q.n.Add(1); q.wakeupCancel()
queueN(c) ==
    /\ ~Crashed
    /\ c.pc = "queueN"
    /\ qn' = qn + 1
    /\ wpc' = Cancelled
    /\ calls' = calls \ {c}
    /\ returned' = ReturnedAfter(c)
    /\ UNCHANGED <<now, apiVars, loopVars, created, timerVars, wheelVars, bucketVars, pq, qstate,
                   witem, wlvl, wx, stops, execVars>>

\* ------------------------------------------- the DelayQueue worker -----
\* DelayQueue.process, entry: q.n.Store(0)
process ==
    /\ ~Crashed
    /\ wpc = "process"
    /\ qn' = 0
    /\ wpc' = "peek"
    /\ UNCHANGED <<now, apiVars, loopVars, created, returned, timerVars, wheelVars, bucketVars,
                   pq, qstate, witem, wlvl, wx, calls, stops, execVars>>

\* process, one turn of the loop: now := q.timeGetter(); PeekAndShift under
\* q.mu; then break when there is no item or item.Value.Size() == 0, arm the
\* cancellable sleep when the head is not due, call the handler otherwise.
processPeek ==
    LET r == PeekAndShift(pq, now)
        item == r[1]
        delta == r[2]
    IN  /\ ~Crashed
        /\ wpc = "peek"
        /\ pq' = r[3]
        /\ IF item = Nil \/ Len(btimers[item.value]) = 0
           THEN wpc' = "break" /\ UNCHANGED witem
           ELSE IF delta > 0
           THEN wpc' = "sleep" /\ UNCHANGED witem
           ELSE wpc' = "handler" /\ witem' = item.value
        /\ UNCHANGED <<now, apiVars, loopVars, created, returned, timerVars, wheelVars, bucketVars,
                       qstate, qn, wlvl, wx, calls, stops, execVars>>

\* case <-q.wakeupCtx.Done(): continue.  The context times out after
\* time.Duration(delta), that is delta nanoseconds: within the same
\* millisecond as far as the clock of the model can tell.
processWake ==
    /\ ~Crashed
    /\ wpc = "sleep"
    /\ wpc' = "peek"
    /\ UNCHANGED <<now, apiVars, loopVars, created, returned, timerVars, wheelVars, bucketVars,
                   queueVars, witem, wlvl, wx, calls, stops, execVars>>

\* DelayQueue.wakeup after process returned: q.state.Store(sleeping); leave
\* when q.n is 0, otherwise CAS back to working and process again.
wakeup ==
    /\ ~Crashed
    /\ wpc = "break"
    /\ IF qn = 0
       THEN qstate' = delayQueueSleeping /\ wpc' = "none"
       ELSE qstate' = delayQueueWorking /\ wpc' = "process"
    /\ UNCHANGED <<now, apiVars, loopVars, created, returned, timerVars, wheelVars, bucketVars,
                   pq, qn, witem, wlvl, wx, calls, stops, execVars>>

\* advanceClock without the test expiration >= currentTime+tick: the
\* truncated expiration is stored whatever the current is.
advanceClockUnguarded ==
    LET x == bexpiration[witem] IN
    /\ ~Crashed
    /\ wpc = "handler"
    /\ current' = [current EXCEPT ![0] = Truncate(x, Tick)]
    /\ wpc' = "advance"
    /\ wlvl' = 1
    /\ wx' = Truncate(x, Tick)
    /\ UNCHANGED <<now, apiVars, loopVars, created, returned, timerVars, overflow, bucketVars,
                   queueVars, witem, calls, stops, execVars>>

\* The handler, t.advanceClock(bucket.getExpiration()) at the top level.
advanceClock ==
    LET x == bexpiration[witem] IN
    /\ ~Crashed
    /\ wpc = "handler"
    /\ IF x >= current[0] + Tick
       THEN /\ current' = [current EXCEPT ![0] = Truncate(x, Tick)]
            /\ wpc' = "advance"
            /\ wlvl' = 1
            /\ wx' = Truncate(x, Tick)
       ELSE /\ wpc' = "flush"
            /\ UNCHANGED <<current, wlvl, wx>>
    /\ UNCHANGED <<now, apiVars, loopVars, created, returned, timerVars, overflow, bucketVars,
                   queueVars, witem, calls, stops, execVars>>

\* advanceClock, after the store: t.overflowLock.RLock(); if t.overflow != nil
\* { t.overflow.advanceClock(currentTime) }, for the wheel of level wlvl - 1.
advanceOverflow ==
    LET l == wlvl IN
    /\ ~Crashed
    /\ wpc = "advance"
    /\ \A d \in calls : ~HoldsLock(d, l - 1)
    /\ IF l \in Levels /\ overflow[l - 1] /\ wx >= current[l] + TickOf(l)
       THEN /\ current' = [current EXCEPT ![l] = Truncate(wx, TickOf(l))]
            /\ wlvl' = l + 1
            /\ wx' = Truncate(wx, TickOf(l))
            /\ UNCHANGED wpc
       ELSE /\ wpc' = "flush"
            /\ wlvl' = 0
            /\ wx' = 0
            /\ UNCHANGED current
    /\ UNCHANGED <<now, apiVars, loopVars, created, returned, timerVars, overflow, bucketVars,
                   queueVars, witem, calls, stops, execVars>>

\* bucketImpl.flush(t.contract), all of it under b.rw: every timer is unlinked,
\* its bucket and element are cleared and a goroutine is started to contract
\* it; then b.setExpiration(-1) and b.wheel.refreshDelayQueue().
Flushed(b) == {NewCall(btimers[b][i][1], "flush", 0) : i \in 1..Len(btimers[b])}

\* The same goroutines, each call keeping where it came from: the wheel the
\* bucket belongs to (the top-level wheel: "flush", an overflow wheel:
\* "demote") and the timer's place in the list.
FlushedBy(b) == IF b[1] = 0 THEN "flush" ELSE "demote"
FlushedInOrder(b) ==
    {NewCall(btimers[b][i][1], FlushedBy(b), i) : i \in 1..Len(btimers[b])}

FlushedTimers(b) == {btimers[b][i][1] : i \in 1..Len(btimers[b])}

\* flush without b.timers.Remove(e): the timers stay linked in the list.
flushKeepsList ==
    LET b == witem IN
    /\ ~Crashed
    /\ wpc = "flush"
    /\ calls' = calls \cup Flushed(b)
    /\ tbucket' = [t \in Timers |-> IF t \in FlushedTimers(b) THEN Nil ELSE tbucket[t]]
    /\ telement' = [t \in Timers |-> IF t \in FlushedTimers(b) THEN Nil ELSE telement[t]]
    /\ bexpiration' = [bexpiration EXCEPT ![b] = 0 - 1]
    /\ wpc' = "peek"
    /\ witem' = Nil
    /\ UNCHANGED <<now, apiVars, loopVars, created, returned, texpiration, tstopped, tpushes,
                   wheelVars, btimers, queueVars, wlvl, wx, stops, execVars>>

flushStarting(F) ==
    LET b == witem IN
    /\ ~Crashed
    /\ wpc = "flush"
    /\ calls' = calls \cup F
    /\ tbucket' = [t \in Timers |-> IF t \in FlushedTimers(b) THEN Nil ELSE tbucket[t]]
    /\ telement' = [t \in Timers |-> IF t \in FlushedTimers(b) THEN Nil ELSE telement[t]]
    /\ btimers' = [btimers EXCEPT ![b] = <<>>]
    /\ bexpiration' = [bexpiration EXCEPT ![b] = 0 - 1]
    /\ wpc' = "peek"
    /\ witem' = Nil
    /\ UNCHANGED <<now, apiVars, loopVars, created, returned, texpiration, tstopped, tpushes,
                   wheelVars, queueVars, wlvl, wx, stops, execVars>>

flush == flushStarting(Flushed(witem))

\* flush, with calls that keep where they came from.
flushInOrder == flushStarting(FlushedInOrder(witem))

\* ------------------------------------------------------ Timer.Stop -----
SetStop(p, r) == [stops EXCEPT ![p] = r]

\* timerImpl.Stop: bucket := t.getBucket(); with no bucket, stopped.Store(true)
\* and return false.
Stop(p, t) ==
    /\ ~Crashed
    /\ stops[p].pc = "idle"
    /\ \A q \in Stoppers : q < p => stops[q].pc # "idle"
    /\ returned[t]
    /\ IF tbucket[t] # Nil
       THEN /\ stops' = SetStop(p, [stops[p] EXCEPT !.pc = "remove", !.t = t,
                                                    !.b = tbucket[t]])
            /\ UNCHANGED tstopped
       ELSE /\ stops' = SetStop(p, [stops[p] EXCEPT !.pc = "done", !.t = t,
                                                    !.result = "false"])
            /\ tstopped' = [tstopped EXCEPT ![t] = TRUE]
    /\ UNCHANGED <<now, apiVars, loopVars, created, returned, texpiration, tbucket, telement,
                   tpushes, wheelVars, bucketVars, queueVars, workerVars, calls,
                   execVars>>

\* bucketImpl.remove: if t.getBucket() != b { return false }
removeCheck(p) ==
    LET s == stops[p] IN
    /\ ~Crashed
    /\ s.pc = "remove"
    /\ stops' = SetStop(p, IF tbucket[s.t] # s.b
                           THEN [s EXCEPT !.pc = "done", !.b = Nil, !.result = "false"]
                           ELSE [s EXCEPT !.pc = "lock"])
    /\ UNCHANGED <<now, apiVars, loopVars, created, returned, timerVars, wheelVars, bucketVars,
                   queueVars, workerVars, calls, execVars>>

\* bucketImpl.remove under b.rw: b.timers.Remove(t.getElement()), which panics
\* on a nil element; t.setBucket(nil, nil); b.wheel.refreshDelayQueue();
\* return true.
removeLocked(p) ==
    LET s == stops[p]
        e == telement[s.t]
    IN  /\ ~Crashed
        /\ s.pc = "lock"
        /\ IF e = Nil
           THEN /\ stops' = SetStop(p, [s EXCEPT !.pc = "done", !.b = Nil,
                                                 !.result = "panic"])
                /\ UNCHANGED <<btimers, tbucket, telement, wpc>>
           ELSE /\ stops' = SetStop(p, [s EXCEPT !.pc = "done", !.b = Nil,
                                                 !.result = "true",
                                                 !.unlinked = e \in Range(btimers[s.b])])
                /\ btimers' = [btimers EXCEPT ![s.b] = ListRemove(@, e)]
                /\ tbucket' = [tbucket EXCEPT ![s.t] = Nil]
                /\ telement' = [telement EXCEPT ![s.t] = Nil]
                /\ wpc' = Cancelled
        /\ UNCHANGED <<now, apiVars, loopVars, created, returned, texpiration, tstopped, tpushes,
                       wheelVars, bexpiration, queueVars, witem, wlvl, wx, calls,
                       execVars>>

\* ---------------------------------------------------- the executor -----
\* The goroutine started by contract runs Execute(task): the task starts.
Execute(t) ==
    /\ ~Crashed
    /\ pending[t] > 0
    /\ linterval[t] = 0
    /\ cexpr[t] = 0
    /\ pending' = [pending EXCEPT ![t] = @ - 1]
    /\ executed' = [executed EXCEPT ![t] = @ + 1]
    /\ UNCHANGED <<now, apiVars, loopVars, created, returned, timerVars, wheelVars, bucketVars,
                   queueVars, workerVars, calls, stops, dispatched>>

\* ------------------------------------------------------ loop timers ----
\* time.Time{}, the zero time (January 1 of year 1): a time before every time
\* the clock reads, here the least 32-bit number.
ZeroTime == 0 - 2147483647

Max(a, b) == IF a >= b THEN a ELSE b

\* loopTask.Next(previous), with the task's times and interval and the clock
\* as time.Now() reads it.
LoopNext(times, interval, previous) ==
    IF times = 0 THEN ZeroTime ELSE Max(previous, now) + interval

\* wheel.Loop(duration, NewLoopTask(i, n, task)): the timer is created with a
\* task function that runs the loop task and reschedules in its defer, then
\* contract(timer) on the caller's goroutine.
Loop(t, d, i, n) ==
    /\ ~Crashed
    /\ ~created[t]
    /\ \A u \in Timers : u < t => created[u]
    /\ now + d <= MaxTime
    /\ created' = [created EXCEPT ![t] = TRUE]
    /\ texpiration' = [texpiration EXCEPT ![t] = now + d]
    /\ linterval' = [linterval EXCEPT ![t] = i]
    /\ ltimes' = [ltimes EXCEPT ![t] = n]
    /\ lcount' = [lcount EXCEPT ![t] = n]
    /\ calls' = calls \cup {NewCall(t, "Loop", d)}
    /\ UNCHANGED <<now, apiVars, returned, tbucket, telement, tstopped, tpushes,
                   wheelVars, bucketVars, queueVars, workerVars, stops,
                   execVars, invoked, deferring>>

\* The executor goroutine runs the timer's task function, up to its deferred
\* call: task.Execute(), which is loopTask.Execute.
loopExecute(t) ==
    /\ ~Crashed
    /\ pending[t] > 0
    /\ linterval[t] # 0
    /\ ~deferring[t]
    /\ pending' = [pending EXCEPT ![t] = @ - 1]
    /\ executed' = [executed EXCEPT ![t] = @ + 1]
    /\ IF ltimes[t] = 0
       THEN UNCHANGED <<invoked, ltimes>>
       ELSE /\ invoked' = [invoked EXCEPT ![t] = @ + 1]
            /\ ltimes' = [ltimes EXCEPT ![t] = IF @ > 0 THEN @ - 1 ELSE @]
    /\ deferring' = [deferring EXCEPT ![t] = TRUE]
    /\ UNCHANGED <<now, apiVars, created, returned, timerVars, wheelVars, bucketVars,
                   queueVars, workerVars, calls, stops, dispatched, linterval,
                   lcount>>

\* loopDefer with a comparison that is not strict: an unchanged expiration is
\* scheduled again.
loopDeferNotStrict(t) ==
    LET previous == texpiration[t]
        next == LoopNext(ltimes[t], linterval[t], previous)
    IN  /\ ~Crashed
        /\ deferring[t]
        /\ next <= MaxTime
        /\ deferring' = [deferring EXCEPT ![t] = FALSE]
        /\ IF next # ZeroTime /\ next >= previous
           THEN /\ texpiration' = [texpiration EXCEPT ![t] = next]
                /\ calls' = calls \cup {NewCall(t, "defer", 0)}
           ELSE UNCHANGED <<texpiration, calls>>
        /\ UNCHANGED <<now, apiVars, created, returned, tbucket, telement, tstopped,
                       tpushes, wheelVars, bucketVars, queueVars, workerVars,
                       stops, execVars, linterval, ltimes, lcount, invoked>>

\* The deferred call of the task function: previous := the expiration;
\* next := task.Next(previous); when next is not the zero time and is after
\* previous, timer.setExpiration(next) and t.contract(timer).
loopDefer(t) ==
    LET previous == texpiration[t]
        next == LoopNext(ltimes[t], linterval[t], previous)
    IN  /\ ~Crashed
        /\ deferring[t]
        /\ next <= MaxTime
        /\ deferring' = [deferring EXCEPT ![t] = FALSE]
        /\ IF next # ZeroTime /\ next > previous
           THEN /\ texpiration' = [texpiration EXCEPT ![t] = next]
                /\ calls' = calls \cup {NewCall(t, "defer", 0)}
           ELSE UNCHANGED <<texpiration, calls>>
        /\ UNCHANGED <<now, apiVars, created, returned, tbucket, telement, tstopped,
                       tpushes, wheelVars, bucketVars, queueVars, workerVars,
                       stops, execVars, linterval, ltimes, lcount, invoked>>

\* ------------------------------------------------------ cron timers ----
\* expression.Next(from): the first matching instant strictly after from.
CronNext(p, from) == (from \div p + 1) * p

\* wheel.Cron(cron, task) with an expression that parses: now := time.Now();
\* the timer is created for expression.Next(now) with a task function that
\* runs the task and reschedules in its defer, then contract(timer) on the
\* caller's goroutine.
Cron(t, p) ==
    /\ ~Crashed
    /\ ~created[t]
    /\ \A u \in Timers : u < t => created[u]
    /\ CronNext(p, now) <= MaxTime
    /\ created' = [created EXCEPT ![t] = TRUE]
    /\ cexpr' = [cexpr EXCEPT ![t] = p]
    /\ cnow' = [cnow EXCEPT ![t] = now]
    /\ texpiration' = [texpiration EXCEPT ![t] = CronNext(p, now)]
    /\ calls' = calls \cup {NewCall(t, "Cron", 0)}
    /\ UNCHANGED <<now, momentVars, heapVars, driverVars, namedVars, panicVars, loopVars, returned, tbucket,
                   telement, tstopped, tpushes, wheelVars, bucketVars,
                   queueVars, workerVars, stops, execVars>>

\* The executor goroutine runs the cron timer's task function, up to its
\* deferred call: task.Execute().
cronExecute(t) ==
    /\ ~Crashed
    /\ pending[t] > 0
    /\ cexpr[t] # 0
    /\ ~deferring[t]
    /\ executed[t] < MaxRuns
    /\ pending' = [pending EXCEPT ![t] = @ - 1]
    /\ executed' = [executed EXCEPT ![t] = @ + 1]
    /\ deferring' = [deferring EXCEPT ![t] = TRUE]
    /\ UNCHANGED <<now, apiVars, created, returned, timerVars, wheelVars,
                   bucketVars, queueVars, workerVars, calls, stops, dispatched,
                   linterval, ltimes, lcount, invoked>>

\* The deferred call of the cron task function: next := expression.Next(now),
\* where now is the variable wheel.Cron set when the timer was created;
\* timer.setExpiration(next); t.contract(timer).
cronDefer(t) ==
    LET next == CronNext(cexpr[t], cnow[t])
    IN  /\ ~Crashed
        /\ deferring[t]
        /\ cexpr[t] # 0
        /\ deferring' = [deferring EXCEPT ![t] = FALSE]
        /\ texpiration' = [texpiration EXCEPT ![t] = next]
        /\ calls' = calls \cup {NewCall(t, "defer", 0)}
        /\ UNCHANGED <<now, apiVars, created, returned, tbucket, telement,
                       tstopped, tpushes, wheelVars, bucketVars, queueVars,
                       workerVars, stops, execVars, linterval, ltimes, lcount,
                       invoked>>

\* -------------------------------------------------- named registry ----
\* A call of the named registry holds named.lock from its first step to its
\* last; nop is the call in progress.
NamedCall(kind, n, d) == [kind |-> kind, name |-> n, d |-> d]

\* The timers still to be made, and the Stop callers still to be used.
FreeTimers == {t \in Timers : ~created[t]}
FreeStoppers == {p \in Stoppers : stops[p].pc = "idle"}
Held == {t \in Timers : \E n \in Names : registry[n] = t}

\* Stop has been called on t, and has returned.
Stopping(t) == \E p \in Stoppers : stops[p].t = t /\ stops[p].pc # "idle"
StopOver(t) == \E p \in Stoppers : stops[p].t = t /\ stops[p].pc = "done"

\* named.After(name, duration, task) takes the lock.
namedAfter(n, d) ==
    /\ ~Crashed
    /\ nop = Nil
    /\ FreeTimers # {}
    /\ registry[n] # 0 => FreeStoppers # {}
    /\ nop' = NamedCall("After", n, d)
    /\ UNCHANGED <<now, momentVars, heapVars, driverVars, cronVars, registry, tname, cronErrs, panicVars, loopVars,
                   created, returned, timerVars, wheelVars, bucketVars,
                   queueVars, workerVars, calls, stops, execVars>>

\* named.Stop(name) takes the lock.
namedStop(n) ==
    /\ ~Crashed
    /\ nop = Nil
    /\ registry[n] # 0
    /\ FreeStoppers # {}
    /\ nop' = NamedCall("Stop", n, 0)
    /\ UNCHANGED <<now, momentVars, heapVars, driverVars, cronVars, registry, tname, cronErrs, panicVars, loopVars,
                   created, returned, timerVars, wheelVars, bucketVars,
                   queueVars, workerVars, calls, stops, execVars>>

\* named.Clear() takes the lock.
namedClear ==
    /\ ~Crashed
    /\ nop = Nil
    /\ Held # {}
    /\ Cardinality(Held) <= Cardinality(FreeStoppers)
    /\ nop' = NamedCall("Clear", 0, 0)
    /\ UNCHANGED <<now, momentVars, heapVars, driverVars, cronVars, registry, tname, cronErrs, panicVars, loopVars,
                   created, returned, timerVars, wheelVars, bucketVars,
                   queueVars, workerVars, calls, stops, execVars>>

\* old.Stop() in After and Stop, timer.Stop() for each timer in Clear: the
\* call in progress calls Stop on a timer the registry holds, one at a time.
namedStopTimer(p, t) ==
    /\ nop # Nil
    /\ IF nop.kind = "Clear" THEN t \in Held ELSE registry[nop.name] = t
    /\ ~Stopping(t)
    /\ \A u \in Timers : Stopping(u) => StopOver(u)
    /\ Stop(p, t)

\* t.Wheel.After(duration, task), once the timer the name held is stopped.
namedWheelAfter(t) ==
    /\ nop # Nil
    /\ nop.kind = "After"
    /\ registry[nop.name] # 0 => StopOver(registry[nop.name])
    /\ \A u \in Timers : created[u] => tname[u] # 0
    /\ After(t, nop.d)

\* t.timers[name] = the timer After returned; the lock is released.
namedStore(t) ==
    /\ ~Crashed
    /\ nop # Nil
    /\ nop.kind = "After"
    /\ returned[t]
    /\ tname[t] = 0
    /\ registry' = [registry EXCEPT ![nop.name] = t]
    /\ tname' = [tname EXCEPT ![t] = nop.name]
    /\ nop' = Nil
    /\ UNCHANGED <<now, momentVars, heapVars, driverVars, cronVars, cronErrs, panicVars, loopVars, created, returned,
                   timerVars, wheelVars, bucketVars, queueVars, workerVars,
                   calls, stops, execVars>>

\* named.Stop: delete(t.timers, name); the lock is released.
namedDelete ==
    /\ ~Crashed
    /\ nop # Nil
    /\ nop.kind = "Stop"
    /\ registry[nop.name] # 0 => StopOver(registry[nop.name])
    /\ registry' = [registry EXCEPT ![nop.name] = 0]
    /\ nop' = Nil
    /\ UNCHANGED <<now, momentVars, heapVars, driverVars, cronVars, tname, cronErrs, panicVars, loopVars, created,
                   returned, timerVars, wheelVars, bucketVars, queueVars,
                   workerVars, calls, stops, execVars>>

\* named.Clear: every timer stopped, t.timers = make(map); the lock is
\* released.
namedClearDone ==
    /\ ~Crashed
    /\ nop # Nil
    /\ nop.kind = "Clear"
    /\ \A t \in Held : StopOver(t)
    /\ registry' = [n \in Names |-> 0]
    /\ nop' = Nil
    /\ UNCHANGED <<now, momentVars, heapVars, driverVars, cronVars, tname, cronErrs, panicVars, loopVars, created,
                   returned, timerVars, wheelVars, bucketVars, queueVars,
                   workerVars, calls, stops, execVars>>

\* A named.Cron that drops the name's entry before the expression is parsed.
namedCronStopsFirst(n) ==
    /\ ~Crashed
    /\ Cardinality(cronErrs) < MaxErrs
    /\ cronErrs' = cronErrs \cup {<<n, registry[n]>>}
    /\ registry' = [registry EXCEPT ![n] = 0]
    /\ UNCHANGED <<now, momentVars, heapVars, driverVars, cronVars, nop, tname, panicVars, loopVars, created,
                   returned, timerVars, wheelVars, bucketVars, queueVars,
                   workerVars, calls, stops, execVars>>

\* named.Cron(name, cron, task) with an expression that does not parse:
\* t.Wheel.Cron returns cronexpr.Parse's error before a timer is made, and
\* named.Cron returns it before taking the lock.
namedCronInvalid(n) ==
    /\ ~Crashed
    /\ Cardinality(cronErrs) < MaxErrs
    /\ cronErrs' = cronErrs \cup {<<n, registry[n]>>}
    /\ UNCHANGED <<now, momentVars, heapVars, driverVars, cronVars, registry, nop, tname, panicVars, loopVars,
                   created, returned, timerVars, wheelVars, bucketVars,
                   queueVars, workerVars, calls, stops, execVars>>

\* ---------------------------------------------------- panicking tasks --
\* NewConfig().WithExecutor(ExecutorFN(...)), before the wheel is built.
WithExecutor ==
    /\ ~Crashed
    /\ \A t \in Timers : ~created[t]
    /\ executor = defaultExecutor
    /\ executor' = ExecutorFN
    /\ UNCHANGED <<now, momentVars, heapVars, driverVars, cronVars, namedVars, tpanic, loopVars, created, returned,
                   timerVars, wheelVars, bucketVars, queueVars, workerVars,
                   calls, stops, execVars>>

\* Execute(task) where the task of a one-shot timer panics.
ExecutePanic(t) ==
    /\ ~Crashed
    /\ pending[t] > 0
    /\ linterval[t] = 0
    /\ cexpr[t] = 0
    /\ pending' = [pending EXCEPT ![t] = @ - 1]
    /\ executed' = [executed EXCEPT ![t] = @ + 1]
    /\ tpanic' = [tpanic EXCEPT ![t] = TRUE]
    /\ UNCHANGED <<now, momentVars, heapVars, driverVars, cronVars, namedVars, executor, loopVars, created,
                   returned, timerVars, wheelVars, bucketVars, queueVars,
                   workerVars, calls, stops, dispatched>>

\* Execute(task) where the inner task of a loop task panics: loopTask.Execute
\* is left before times is decremented, and the deferred call of the task
\* function runs next.
loopExecutePanic(t) ==
    /\ ~Crashed
    /\ pending[t] > 0
    /\ linterval[t] # 0
    /\ ~deferring[t]
    /\ ltimes[t] # 0
    /\ pending' = [pending EXCEPT ![t] = @ - 1]
    /\ executed' = [executed EXCEPT ![t] = @ + 1]
    /\ invoked' = [invoked EXCEPT ![t] = @ + 1]
    /\ deferring' = [deferring EXCEPT ![t] = TRUE]
    /\ tpanic' = [tpanic EXCEPT ![t] = TRUE]
    /\ UNCHANGED <<now, momentVars, heapVars, driverVars, cronVars, namedVars, executor, created, returned,
                   timerVars, wheelVars, bucketVars, queueVars, workerVars,
                   calls, stops, dispatched, linterval, ltimes, lcount>>

\* ------------------------------------------------ moments of the day ---
\* A time.Time: the instant (seconds since the epoch and the nanoseconds
\* within the second) and the offset of its Location from UTC, in seconds.
\* Locations are fixed offsets: no daylight saving transitions.
HourSeconds == 60 * 60
DaySeconds == 24 * HourSeconds
Time(sec, nsec, loc) == [sec |-> sec, nsec |-> nsec, loc |-> loc]

\* t.Year(), t.Month(), t.Day(): the calendar day t falls on in its own
\* Location, as a day number.
DayOf(t) == (t.sec + t.loc) \div DaySeconds

\* The time of day t shows in the Location of offset loc, in seconds.
ClockOf(t, loc) == (t.sec + loc) % DaySeconds

\* time.Date(year, month, day, hour, min, sec, 0, loc)
Date(day, hour, min, sec, loc) ==
    Time(day * DaySeconds + hour * HourSeconds + min * 60 + sec - loc, 0, loc)

\* t.After(u), t.Equal(u): the instants are compared, not the Locations.
TimeAfter(t, u) == t.sec > u.sec \/ (t.sec = u.sec /\ t.nsec > u.nsec)
TimeEqual(t, u) == t.sec = u.sec /\ t.nsec = u.nsec

\* t.AddDate(0, 0, days)
AddDays(t, days) == [t EXCEPT !.sec = @ + days * DaySeconds]

\* NextMoment(now, hour, min, sec) in a process whose time.Local has the
\* offset local.
NextMoment(t, hour, min, sec, local) ==
    LET moment == Date(DayOf(t), hour, min, sec, local)
    IN  IF TimeAfter(t, moment) \/ TimeEqual(t, moment)
        THEN AddDays(moment, 1)
        ELSE moment

\* The arguments tried: instants of days 1..MaxDay at the hours, minutes and
\* seconds below, on the second or just after it, in Locations up to
\* MaxOffset hours either side of UTC.
MaxDay == 2
MaxOffset == 1
MomentHours == {0, 1, 12, 23}
MomentMinutes == {0, 59}
MomentSeconds == {0, 59}
Offsets == {h * HourSeconds : h \in (0 - MaxOffset)..MaxOffset}
Instants ==
    {Date(d, h, m, s, loc) : d \in 1..MaxDay, h \in MomentHours,
                             m \in MomentMinutes, s \in MomentSeconds,
                             loc \in Offsets}
Times == {[t EXCEPT !.nsec = n] : t \in Instants, n \in 0..1}

\* A program calls NextMoment once.
CallNextMoment(t, hour, min, sec, local) ==
    /\ mcall = Nil
    /\ mcall' = [now |-> t, hour |-> hour, min |-> min, sec |-> sec,
                 local |-> local,
                 result |-> NextMoment(t, hour, min, sec, local)]
    /\ UNCHANGED <<now, heapVars, driverVars, cronVars, namedVars, panicVars, loopVars,
                   created, returned, timerVars, wheelVars, bucketVars,
                   queueVars, workerVars, calls, stops, execVars>>

\* ------------------------------- the DelayQueue, statement by statement --
\* The same DelayQueue with every access to its fields a step of its own and
\* any number of wakeup goroutines.  wakeupCtx is "background" before the
\* first sleep (wakeupCancel is func() {}), "armed" while the context the
\* fields refer to is not done, "done" once it is cancelled or timed out.
SetWorker(w, r) == [workers EXCEPT ![w] = r]
FreeWorker == CHOOSE w \in WorkerIds :
                 /\ workers[w].pc = "none"
                 /\ \A v \in WorkerIds : v < w => workers[v].pc # "none"

\* q.wakeupCancel(): the context the field refers to is done.
WakeupCancelled == IF wakeupCtx = "armed" THEN "done" ELSE wakeupCtx

\* Where a goroutine is inside process().
InProcess(w) ==
    workers[w].pc \in {"process", "peek", "size", "arm", "sleep", "handler",
                       "inHandler"}

\* DelayQueue.Add: if q.state.CompareAndSwap(sleeping, working) { go q.wakeup() }
addCompareAndSwap(c) ==
    /\ ~Crashed
    /\ c.pc = "queueWake"
    /\ IF qstate = delayQueueSleeping
       THEN /\ \E w \in WorkerIds : workers[w].pc = "none"
            /\ qstate' = delayQueueWorking
            /\ workers' = SetWorker(FreeWorker, [NoWorker EXCEPT !.pc = "process"])
            /\ calls' = calls \ {c}
            /\ returned' = ReturnedAfter(c)
       ELSE /\ calls' = Replace(c, [c EXCEPT !.pc = "queueN"])
            /\ UNCHANGED <<qstate, workers, returned>>
    /\ UNCHANGED <<now, cronVars, namedVars, panicVars, momentVars, heapVars, wakeupCtx,
                   loopVars, created, timerVars, wheelVars, bucketVars, pq, qn,
                   workerVars, stops, execVars>>

\* DelayQueue.Add, else branch, first statement: q.n.Add(1)
addN(c) ==
    /\ ~Crashed
    /\ c.pc = "queueN"
    /\ qn' = qn + 1
    /\ calls' = Replace(c, [c EXCEPT !.pc = "queueCancel"])
    /\ UNCHANGED <<now, apiVars, loopVars, created, returned, timerVars,
                   wheelVars, bucketVars, pq, qstate, workerVars, stops,
                   execVars>>

\* DelayQueue.Add, else branch, second statement: q.wakeupCancel(), the
\* function the field holds at this moment.
addWakeupCancel(c) ==
    /\ ~Crashed
    /\ c.pc = "queueCancel"
    /\ wakeupCtx' = WakeupCancelled
    /\ calls' = calls \ {c}
    /\ returned' = ReturnedAfter(c)
    /\ UNCHANGED <<now, cronVars, namedVars, panicVars, momentVars, heapVars, workers,
                   loopVars, created, timerVars, wheelVars, bucketVars,
                   queueVars, workerVars, stops, execVars>>

\* process, entry: q.n.Store(0)
processStoreN(w) ==
    /\ ~Crashed
    /\ workers[w].pc = "process"
    /\ qn' = 0
    /\ workers' = SetWorker(w, [workers[w] EXCEPT !.pc = "peek"])
    /\ UNCHANGED <<now, cronVars, namedVars, panicVars, momentVars, heapVars, wakeupCtx,
                   loopVars, created, returned, timerVars, wheelVars,
                   bucketVars, pq, qstate, workerVars, calls, stops, execVars>>

\* process, top of the loop: now := q.timeGetter(); q.mu.Lock();
\* item, delta := q.priorityQueue.PeekAndShift(now); q.mu.Unlock()
processPeekAndShift(w) ==
    LET r == PeekAndShift(pq, now) IN
    /\ ~Crashed
    /\ workers[w].pc = "peek"
    /\ pq' = r[3]
    /\ workers' = SetWorker(w, [workers[w] EXCEPT !.pc = "size", !.item = r[1],
                                                  !.delta = r[2]])
    /\ UNCHANGED <<now, cronVars, namedVars, panicVars, momentVars, heapVars, wakeupCtx,
                   loopVars, created, returned, timerVars, wheelVars,
                   bucketVars, qstate, qn, workerVars, calls, stops, execVars>>

\* The check of process() without item.Value.Size(): only a nil item ends the
\* loop.
processSizeNilOnly(w) ==
    LET item == workers[w].item IN
    /\ ~Crashed
    /\ workers[w].pc = "size"
    /\ workers' = SetWorker(w,
          IF item = Nil
          THEN [workers[w] EXCEPT !.pc = "store", !.item = Nil, !.delta = 0]
          ELSE IF workers[w].delta > 0
          THEN [workers[w] EXCEPT !.pc = "arm"]
          ELSE [workers[w] EXCEPT !.pc = "handler"])
    /\ UNCHANGED <<now, cronVars, namedVars, panicVars, momentVars, heapVars, wakeupCtx,
                   loopVars, created, returned, timerVars, wheelVars,
                   bucketVars, queueVars, workerVars, calls, stops, execVars>>

\* if item == nil || item.Value.Size() == 0 { break }: Size() reads the list
\* under the bucket's lock.  Then delta > 0 leads to the sleep, otherwise to
\* the handler.
processSize(w) ==
    LET item == workers[w].item IN
    /\ ~Crashed
    /\ workers[w].pc = "size"
    /\ workers' = SetWorker(w,
          IF item = Nil \/ Len(btimers[item.value]) = 0
          THEN [workers[w] EXCEPT !.pc = "store", !.item = Nil, !.delta = 0]
          ELSE IF workers[w].delta > 0
          THEN [workers[w] EXCEPT !.pc = "arm"]
          ELSE [workers[w] EXCEPT !.pc = "handler"])
    /\ UNCHANGED <<now, cronVars, namedVars, panicVars, momentVars, heapVars, wakeupCtx,
                   loopVars, created, returned, timerVars, wheelVars,
                   bucketVars, queueVars, workerVars, calls, stops, execVars>>

\* q.wakeupCtx, q.wakeupCancel = context.WithTimeout(Background(), after), and
\* the select that follows starts to wait on q.wakeupCtx.  A goroutine that
\* waited on the context the fields referred to before keeps waiting on it.
processArm(w) ==
    /\ ~Crashed
    /\ workers[w].pc = "arm"
    /\ wakeupCtx' = "armed"
    /\ workers' = [v \in WorkerIds |->
                      IF v = w THEN [workers[w] EXCEPT !.pc = "sleep", !.ctx = "field"]
                      ELSE IF workers[v].ctx = "field"
                      THEN [workers[v] EXCEPT !.ctx = "orphan"]
                      ELSE workers[v]]
    /\ UNCHANGED <<now, cronVars, namedVars, panicVars, momentVars, heapVars, loopVars,
                   created, returned, timerVars, wheelVars, bucketVars,
                   queueVars, workerVars, calls, stops, execVars>>

\* case <-q.wakeupCtx.Done(): continue.  The context is done when it was
\* cancelled, or when its timeout has passed, which can be at any moment.
processDone(w) ==
    /\ ~Crashed
    /\ workers[w].pc = "sleep"
    /\ wakeupCtx' = IF workers[w].ctx = "field" THEN "done" ELSE wakeupCtx
    /\ workers' = SetWorker(w, [workers[w] EXCEPT !.pc = "peek", !.item = Nil,
                                                  !.delta = 0, !.ctx = "none"])
    /\ UNCHANGED <<now, cronVars, namedVars, panicVars, momentVars, heapVars, loopVars,
                   created, returned, timerVars, wheelVars, bucketVars,
                   queueVars, workerVars, calls, stops, execVars>>

\* q.handler(item.Value): the goroutine enters the wheel's handler, whose
\* steps are advanceClock, advanceOverflow and the flush.
processHandler(w) ==
    /\ ~Crashed
    /\ workers[w].pc = "handler"
    /\ wpc = "none"
    /\ wpc' = "handler"
    /\ witem' = workers[w].item.value
    /\ workers' = SetWorker(w, [workers[w] EXCEPT !.pc = "inHandler"])
    /\ UNCHANGED <<now, cronVars, namedVars, panicVars, momentVars, heapVars, wakeupCtx,
                   loopVars, created, returned, timerVars, wheelVars,
                   bucketVars, queueVars, wlvl, wx, calls, stops, execVars>>

\* The handler has returned: the loop goes on.
processHandled(w) ==
    /\ ~Crashed
    /\ workers[w].pc = "inHandler"
    /\ wpc = "peek"
    /\ wpc' = "none"
    /\ workers' = SetWorker(w, [workers[w] EXCEPT !.pc = "peek", !.item = Nil,
                                                  !.delta = 0])
    /\ UNCHANGED <<now, cronVars, namedVars, panicVars, momentVars, heapVars, wakeupCtx,
                   loopVars, created, returned, timerVars, wheelVars,
                   bucketVars, queueVars, witem, wlvl, wx, calls, stops,
                   execVars>>

\* wakeup, after process returned: q.state.Store(delayQueueSleeping)
wakeupStore(w) ==
    /\ ~Crashed
    /\ workers[w].pc = "store"
    /\ qstate' = delayQueueSleeping
    /\ workers' = SetWorker(w, [workers[w] EXCEPT !.pc = "load"])
    /\ UNCHANGED <<now, cronVars, namedVars, panicVars, momentVars, heapVars, wakeupCtx,
                   loopVars, created, returned, timerVars, wheelVars,
                   bucketVars, pq, qn, workerVars, calls, stops, execVars>>

\* if q.n.Load() == 0 { break }: the goroutine ends.
wakeupLoadN(w) ==
    /\ ~Crashed
    /\ workers[w].pc = "load"
    /\ workers' = SetWorker(w, IF qn = 0 THEN NoWorker
                               ELSE [workers[w] EXCEPT !.pc = "cas"])
    /\ UNCHANGED <<now, cronVars, namedVars, panicVars, momentVars, heapVars, wakeupCtx,
                   loopVars, created, returned, timerVars, wheelVars,
                   bucketVars, queueVars, workerVars, calls, stops, execVars>>

\* wakeup going on after q.state.Store(working) in place of the
\* CompareAndSwap: the sleeping state is not checked.
wakeupStoreWorking(w) ==
    /\ ~Crashed
    /\ workers[w].pc = "cas"
    /\ qstate' = delayQueueWorking
    /\ workers' = SetWorker(w, [workers[w] EXCEPT !.pc = "process"])
    /\ UNCHANGED <<now, cronVars, namedVars, panicVars, momentVars, heapVars, wakeupCtx,
                   loopVars, created, returned, timerVars, wheelVars,
                   bucketVars, pq, qn, workerVars, calls, stops, execVars>>

\* else if !q.state.CompareAndSwap(sleeping, working) { break }
wakeupCompareAndSwap(w) ==
    /\ ~Crashed
    /\ workers[w].pc = "cas"
    /\ IF qstate = delayQueueSleeping
       THEN /\ qstate' = delayQueueWorking
            /\ workers' = SetWorker(w, [workers[w] EXCEPT !.pc = "process"])
       ELSE /\ workers' = SetWorker(w, NoWorker)
            /\ UNCHANGED qstate
    /\ UNCHANGED <<now, cronVars, namedVars, panicVars, momentVars, heapVars, wakeupCtx,
                   loopVars, created, returned, timerVars, wheelVars,
                   bucketVars, pq, qn, workerVars, calls, stops, execVars>>

\* bucketImpl.flush as the handler of a wakeup goroutine runs it: the same
\* critical section, with b.wheel.refreshDelayQueue() cancelling the context
\* the DelayQueue's fields refer to.
flushRefresh ==
    LET b == witem IN
    /\ ~Crashed
    /\ wpc = "flush"
    /\ calls' = calls \cup Flushed(b)
    /\ tbucket' = [t \in Timers |-> IF t \in FlushedTimers(b) THEN Nil ELSE tbucket[t]]
    /\ telement' = [t \in Timers |-> IF t \in FlushedTimers(b) THEN Nil ELSE telement[t]]
    /\ btimers' = [btimers EXCEPT ![b] = <<>>]
    /\ bexpiration' = [bexpiration EXCEPT ![b] = 0 - 1]
    /\ wakeupCtx' = WakeupCancelled
    /\ wpc' = "peek"
    /\ witem' = Nil
    /\ UNCHANGED <<now, cronVars, namedVars, panicVars, momentVars, heapVars, workers,
                   loopVars, created, returned, texpiration, tstopped, tpushes,
                   wheelVars, queueVars, wlvl, wx, stops, execVars>>

\* bucketImpl.remove under b.rw, with b.wheel.refreshDelayQueue() cancelling
\* the context the DelayQueue's fields refer to.
removeLockedRefresh(p) ==
    LET s == stops[p]
        e == telement[s.t]
    IN  /\ ~Crashed
        /\ s.pc = "lock"
        /\ IF e = Nil
           THEN /\ stops' = SetStop(p, [s EXCEPT !.pc = "done", !.b = Nil,
                                                 !.result = "panic"])
                /\ UNCHANGED <<btimers, tbucket, telement, wakeupCtx>>
           ELSE /\ stops' = SetStop(p, [s EXCEPT !.pc = "done", !.b = Nil,
                                                 !.result = "true",
                                                 !.unlinked = e \in Range(btimers[s.b])])
                /\ btimers' = [btimers EXCEPT ![s.b] = ListRemove(@, e)]
                /\ tbucket' = [tbucket EXCEPT ![s.t] = Nil]
                /\ telement' = [telement EXCEPT ![s.t] = Nil]
                /\ wakeupCtx' = WakeupCancelled
        /\ UNCHANGED <<now, cronVars, namedVars, panicVars, momentVars, heapVars, workers,
                       loopVars, created, returned, texpiration, tstopped,
                       tpushes, wheelVars, bexpiration, queueVars, workerVars,
                       calls, execVars>>

\* ---------------------------------------------------------- Spec -------
Next ==
    \/ ClockTick
    \/ \E t \in Timers, d \in Delays : After(t, d)
    \/ \E c \in calls : contractStopped(c)
    \/ \E c \in calls : addExpired(c)
    \/ \E c \in calls : addPush(c)
    \/ \E c \in calls : addBeyond(c)
    \/ \E c \in calls : addOverflow(c)
    \/ \E c \in calls : setBucket(c)
    \/ \E c \in calls : setElement(c)
    \/ \E c \in calls : setExpiration(c)
    \/ \E c \in calls : queueAdd(c)
    \/ \E c \in calls : queueWake(c)
    \/ \E c \in calls : queueN(c)
    \/ process
    \/ processPeek
    \/ processWake
    \/ wakeup
    \/ advanceClock
    \/ advanceOverflow
    \/ flush
    \/ \E p \in Stoppers, t \in Timers : Stop(p, t)
    \/ \E p \in Stoppers : removeCheck(p)
    \/ \E p \in Stoppers : removeLocked(p)
    \/ \E t \in Timers : Execute(t)

Spec == Init /\ [][Next]_vars

\* The wheel with loop timers only; nobody calls Stop.
LoopNextStep ==
    \/ ClockTick
    \/ \E t \in LoopTimers, d \in LoopDelays, i \in 1..MaxInterval, n \in 0..MaxTimes :
          Loop(t, d, i, n)
    \/ \E c \in calls : contractStopped(c)
    \/ \E c \in calls : addExpired(c)
    \/ \E c \in calls : addPush(c)
    \/ \E c \in calls : addBeyond(c)
    \/ \E c \in calls : addOverflow(c)
    \/ \E c \in calls : setBucket(c)
    \/ \E c \in calls : setElement(c)
    \/ \E c \in calls : setExpiration(c)
    \/ \E c \in calls : queueAdd(c)
    \/ \E c \in calls : queueWake(c)
    \/ \E c \in calls : queueN(c)
    \/ process
    \/ processPeek
    \/ processWake
    \/ wakeup
    \/ advanceClock
    \/ advanceOverflow
    \/ flush
    \/ \E t \in LoopTimers : loopExecute(t)
    \/ \E t \in LoopTimers : loopDefer(t)

LoopSpec == Init /\ [][LoopNextStep]_vars

\* One loop timer of any interval and count, and callers of Stop.
LoopStopNext ==
    \/ ClockTick
    \/ \E t \in LoopTimers, d \in LoopDelays, i \in LoopIntervals, n \in LoopCounts :
          Loop(t, d, i, n)
    \/ \E c \in calls : contractStopped(c)
    \/ \E c \in calls : addExpired(c)
    \/ \E c \in calls : addPush(c)
    \/ \E c \in calls : addBeyond(c)
    \/ \E c \in calls : addOverflow(c)
    \/ \E c \in calls : setBucket(c)
    \/ \E c \in calls : setElement(c)
    \/ \E c \in calls : setExpiration(c)
    \/ \E c \in calls : queueAdd(c)
    \/ \E c \in calls : queueWake(c)
    \/ \E c \in calls : queueN(c)
    \/ process
    \/ processPeek
    \/ processWake
    \/ wakeup
    \/ advanceClock
    \/ advanceOverflow
    \/ flush
    \/ \E p \in Stoppers, t \in LoopTimers : Stop(p, t)
    \/ \E p \in Stoppers : removeCheck(p)
    \/ \E p \in Stoppers : removeLocked(p)
    \/ \E t \in LoopTimers : loopExecute(t)
    \/ \E t \in LoopTimers : loopDefer(t)

LoopStopSpec == Init /\ [][LoopStopNext]_vars

\* The wheel with cron timers only; nobody calls Stop.
CronNextStep ==
    \/ ClockTick
    \/ \E t \in CronTimers, p \in CronPeriods : Cron(t, p)
    \/ \E c \in calls : contractStopped(c)
    \/ \E c \in calls : addExpired(c)
    \/ \E c \in calls : addPush(c)
    \/ \E c \in calls : addBeyond(c)
    \/ \E c \in calls : addOverflow(c)
    \/ \E c \in calls : setBucket(c)
    \/ \E c \in calls : setElement(c)
    \/ \E c \in calls : setExpiration(c)
    \/ \E c \in calls : queueAdd(c)
    \/ \E c \in calls : queueWake(c)
    \/ \E c \in calls : queueN(c)
    \/ process
    \/ processPeek
    \/ processWake
    \/ wakeup
    \/ advanceClock
    \/ advanceOverflow
    \/ flush
    \/ \E t \in CronTimers : cronExecute(t)
    \/ \E t \in CronTimers : cronDefer(t)

CronSpec == Init /\ [][CronNextStep]_vars

\* The wheel used through one named registry: one-shot timers by name.
NamedNext ==
    \/ ClockTick
    \/ \E n \in Names, d \in NamedDelays : namedAfter(n, d)
    \/ \E n \in Names : namedStop(n)
    \/ namedClear
    \/ \E n \in Names : namedCronInvalid(n)
    \/ \E p \in Stoppers, t \in Timers : namedStopTimer(p, t)
    \/ \E t \in Timers : namedWheelAfter(t)
    \/ \E t \in Timers : namedStore(t)
    \/ namedDelete
    \/ namedClearDone
    \/ \E c \in calls : contractStopped(c)
    \/ \E c \in calls : addExpired(c)
    \/ \E c \in calls : addPush(c)
    \/ \E c \in calls : addBeyond(c)
    \/ \E c \in calls : addOverflow(c)
    \/ \E c \in calls : setBucket(c)
    \/ \E c \in calls : setElement(c)
    \/ \E c \in calls : setExpiration(c)
    \/ \E c \in calls : queueAdd(c)
    \/ \E c \in calls : queueWake(c)
    \/ \E c \in calls : queueN(c)
    \/ process
    \/ processPeek
    \/ processWake
    \/ wakeup
    \/ advanceClock
    \/ advanceOverflow
    \/ flush
    \/ \E p \in Stoppers : removeCheck(p)
    \/ \E p \in Stoppers : removeLocked(p)
    \/ \E t \in Timers : Execute(t)

NamedSpec == Init /\ [][NamedNext]_vars

\* The wheel with one-shot timers and nobody calling Stop; the flush
\* goroutines keep where they came from.
OrderNext ==
    \/ ClockTick
    \/ \E t \in Timers, d \in Delays : After(t, d)
    \/ \E c \in calls : contractStopped(c)
    \/ \E c \in calls : addExpired(c)
    \/ \E c \in calls : addPush(c)
    \/ \E c \in calls : addBeyond(c)
    \/ \E c \in calls : addOverflow(c)
    \/ \E c \in calls : setBucket(c)
    \/ \E c \in calls : setElement(c)
    \/ \E c \in calls : setExpiration(c)
    \/ \E c \in calls : queueAdd(c)
    \/ \E c \in calls : queueWake(c)
    \/ \E c \in calls : queueN(c)
    \/ process
    \/ processPeek
    \/ processWake
    \/ wakeup
    \/ advanceClock
    \/ advanceOverflow
    \/ flushInOrder
    \/ \E t \in Timers : Execute(t)

OrderSpec == Init /\ [][OrderNext]_vars

\* The wheel with either executor and one timer, one-shot or loop, whose
\* task may panic; nobody calls Stop.
PanicNext ==
    \/ ClockTick
    \/ WithExecutor
    \/ \E t \in LoopTimers, d \in LoopDelays : After(t, d)
    \/ \E t \in LoopTimers, d \in LoopDelays, i \in 1..MaxInterval, n \in LoopCounts :
          Loop(t, d, i, n)
    \/ \E c \in calls : contractStopped(c)
    \/ \E c \in calls : addExpired(c)
    \/ \E c \in calls : addPush(c)
    \/ \E c \in calls : addBeyond(c)
    \/ \E c \in calls : addOverflow(c)
    \/ \E c \in calls : setBucket(c)
    \/ \E c \in calls : setElement(c)
    \/ \E c \in calls : setExpiration(c)
    \/ \E c \in calls : queueAdd(c)
    \/ \E c \in calls : queueWake(c)
    \/ \E c \in calls : queueN(c)
    \/ process
    \/ processPeek
    \/ processWake
    \/ wakeup
    \/ advanceClock
    \/ advanceOverflow
    \/ flush
    \/ \E t \in LoopTimers : Execute(t)
    \/ \E t \in LoopTimers : ExecutePanic(t)
    \/ \E t \in LoopTimers : loopExecute(t)
    \/ \E t \in LoopTimers : loopExecutePanic(t)
    \/ \E t \in LoopTimers : loopDefer(t)

PanicSpec == Init /\ [][PanicNext]_vars

\* One call of NextMoment, with any of the arguments tried.
MomentNext ==
    \E t \in Times, hour \in MomentHours, min \in MomentMinutes,
       sec \in MomentSeconds, local \in Offsets :
          CallNextMoment(t, hour, min, sec, local)

MomentSpec == Init /\ [][MomentNext]_vars

\* The wheel with one-shot timers and callers of Stop, driven by the
\* DelayQueue taken statement by statement.
QueueNext ==
    \/ ClockTick
    \/ \E t \in Timers, d \in QueueDelays : After(t, d)
    \/ \E c \in calls : contractStopped(c)
    \/ \E c \in calls : addExpired(c)
    \/ \E c \in calls : addPush(c)
    \/ \E c \in calls : addBeyond(c)
    \/ \E c \in calls : addOverflow(c)
    \/ \E c \in calls : setBucket(c)
    \/ \E c \in calls : setElement(c)
    \/ \E c \in calls : setExpiration(c)
    \/ \E c \in calls : queueAdd(c)
    \/ \E c \in calls : addCompareAndSwap(c)
    \/ \E c \in calls : addN(c)
    \/ \E c \in calls : addWakeupCancel(c)
    \/ \E w \in WorkerIds : processStoreN(w)
    \/ \E w \in WorkerIds : processPeekAndShift(w)
    \/ \E w \in WorkerIds : processSize(w)
    \/ \E w \in WorkerIds : processArm(w)
    \/ \E w \in WorkerIds : processDone(w)
    \/ \E w \in WorkerIds : processHandler(w)
    \/ \E w \in WorkerIds : processHandled(w)
    \/ \E w \in WorkerIds : wakeupStore(w)
    \/ \E w \in WorkerIds : wakeupLoadN(w)
    \/ \E w \in WorkerIds : wakeupCompareAndSwap(w)
    \/ advanceClock
    \/ advanceOverflow
    \/ flushRefresh
    \/ \E p \in QueueStoppers, t \in Timers : Stop(p, t)
    \/ \E p \in QueueStoppers : removeCheck(p)
    \/ \E p \in QueueStoppers : removeLockedRefresh(p)
    \/ \E t \in Timers : Execute(t)

QueueSpec == Init /\ [][QueueNext]_vars

\* ------------------------------------- the flush, statement by statement --
\* bucketImpl.flush taken one statement at a time.  While the driver is in
\* the loop it holds b.rw of the bucket in witem; wx is t, the timer of the
\* element the loop has in hand.
FlushHolds(b) == wpc \in {"flushLoop", "flushGo"} /\ witem = b

\* b.rw.Lock(); defer b.rw.Unlock()
flushLock ==
    /\ ~Crashed
    /\ wpc = "flush"
    /\ wpc' = "flushLoop"
    /\ UNCHANGED <<now, apiVars, loopVars, created, returned, timerVars,
                   wheelVars, bucketVars, queueVars, witem, wlvl, wx, calls,
                   stops, execVars>>

\* e == nil ends the loop: b.setExpiration(-1); b.wheel.refreshDelayQueue();
\* the deferred b.rw.Unlock().
flushEnd ==
    /\ ~Crashed
    /\ wpc = "flushLoop"
    /\ Len(btimers[witem]) = 0
    /\ bexpiration' = [bexpiration EXCEPT ![witem] = 0 - 1]
    /\ wpc' = "peek"
    /\ witem' = Nil
    /\ UNCHANGED <<now, apiVars, loopVars, created, returned, timerVars,
                   wheelVars, btimers, queueVars, wlvl, wx, calls, stops,
                   execVars>>

\* t := e.Value.(Timer); b.timers.Remove(e); t.setBucket(nil, nil)
flushUnlink ==
    LET b == witem
        t == Head(btimers[b])[1]
    IN  /\ ~Crashed
        /\ wpc = "flushLoop"
        /\ Len(btimers[b]) > 0
        /\ btimers' = [btimers EXCEPT ![b] = Tail(@)]
        /\ tbucket' = [tbucket EXCEPT ![t] = Nil]
        /\ telement' = [telement EXCEPT ![t] = Nil]
        /\ wx' = t
        /\ wpc' = "flushGo"
        /\ UNCHANGED <<now, apiVars, loopVars, created, returned, texpiration,
                       tstopped, tpushes, wheelVars, bexpiration, queueVars,
                       witem, wlvl, calls, stops, execVars>>

\* go adder(t); e = next
flushGo ==
    /\ ~Crashed
    /\ wpc = "flushGo"
    /\ calls' = calls \cup {NewCall(wx, "flush", 0)}
    /\ wx' = 0
    /\ wpc' = "flushLoop"
    /\ UNCHANGED <<now, apiVars, loopVars, created, returned, timerVars,
                   wheelVars, bucketVars, queueVars, witem, wlvl, stops,
                   execVars>>

\* bucketImpl.add's critical section waits for b.rw while the flush holds it.
addPushLocking(c) ==
    /\ ~FlushHolds(BucketOf(texpiration[c.t], c.lvl))
    /\ addPush(c)

\* The wheel with one-shot timers and the flush taken statement by statement.
FlushNext ==
    \/ ClockTick
    \/ \E t \in Timers, d \in Delays : After(t, d)
    \/ \E c \in calls : contractStopped(c)
    \/ \E c \in calls : addExpired(c)
    \/ \E c \in calls : addPushLocking(c)
    \/ \E c \in calls : addBeyond(c)
    \/ \E c \in calls : addOverflow(c)
    \/ \E c \in calls : setBucket(c)
    \/ \E c \in calls : setElement(c)
    \/ \E c \in calls : setExpiration(c)
    \/ \E c \in calls : queueAdd(c)
    \/ \E c \in calls : queueWake(c)
    \/ \E c \in calls : queueN(c)
    \/ process
    \/ processPeek
    \/ processWake
    \/ wakeup
    \/ advanceClock
    \/ advanceOverflow
    \/ flushLock
    \/ flushUnlink
    \/ flushGo
    \/ flushEnd
    \/ \E t \in Timers : Execute(t)

FlushSpec == Init /\ [][FlushNext]_vars

\* ------------------------------------------------- the bucket locks ------
\* b.rw of bucket b was left locked: a Stop call panicked in bucketImpl.remove
\* after b.rw.Lock() and before defer b.rw.Unlock() was reached, and the
\* panic was recovered above Stop (ExecutorFN.Execute recovers the panics of
\* the task it runs; so can any caller).  Nobody unlocks it afterwards.
LockLeft(b) ==
    \E p \in Stoppers : stops[p].result = "recovered" /\ stops[p].b = b

BucketLocked(b) == FlushHolds(b) \/ LockLeft(b)

\* bucketImpl.add's b.rw.Lock() waits while the lock is held.
addPushWaiting(c) ==
    /\ ~BucketLocked(BucketOf(texpiration[c.t], c.lvl))
    /\ addPush(c)

\* bucketImpl.remove's b.rw.Lock() waits while the lock is held; a panic that
\* nothing recovers ends the program.
removeWaiting(p) ==
    /\ ~BucketLocked(stops[p].b)
    /\ removeLocked(p)

\* bucketImpl.remove with a nil element, the panic recovered by the caller:
\* the Stop call is over and b.rw stays locked.
removeRecovered(p) ==
    LET s == stops[p] IN
    /\ ~Crashed
    /\ s.pc = "lock"
    /\ ~BucketLocked(s.b)
    /\ telement[s.t] = Nil
    /\ stops' = SetStop(p, [s EXCEPT !.pc = "done", !.result = "recovered"])
    /\ UNCHANGED <<now, apiVars, loopVars, created, returned, timerVars,
                   wheelVars, bucketVars, queueVars, workerVars, calls,
                   execVars>>

\* bucketImpl.flush's b.rw.Lock() waits while the lock is held.
flushWaiting ==
    /\ ~LockLeft(witem)
    /\ flushLock

\* process, one turn of the loop, when item.Value.Size() can take b.rw.RLock().
processPeekWaiting ==
    /\ pq # <<>> => ~LockLeft(pq[1].value)
    /\ processPeek

\* process, one turn of the loop, when it cannot: PeekAndShift has run under
\* q.mu and the goroutine waits in item.Value.Size() for b.rw.RLock().
processPeekSize ==
    LET r == PeekAndShift(pq, now) IN
    /\ ~Crashed
    /\ wpc = "peek"
    /\ pq # <<>>
    /\ LockLeft(pq[1].value)
    /\ pq' = r[3]
    /\ wpc' = "size"
    /\ witem' = pq[1].value
    /\ UNCHANGED <<now, apiVars, loopVars, created, returned, timerVars,
                   wheelVars, bucketVars, qstate, qn, wlvl, wx, calls, stops,
                   execVars>>

\* The wheel with one-shot timers, Stop calls whose panic may be recovered,
\* and every bucket lock taken where the code takes it.
LockNext ==
    \/ ClockTick
    \/ \E t \in Timers, d \in LockDelays : After(t, d)
    \/ \E c \in calls : contractStopped(c)
    \/ \E c \in calls : addExpired(c)
    \/ \E c \in calls : addPushWaiting(c)
    \/ \E c \in calls : addBeyond(c)
    \/ \E c \in calls : addOverflow(c)
    \/ \E c \in calls : setBucket(c)
    \/ \E c \in calls : setElement(c)
    \/ \E c \in calls : setExpiration(c)
    \/ \E c \in calls : queueAdd(c)
    \/ \E c \in calls : queueWake(c)
    \/ \E c \in calls : queueN(c)
    \/ process
    \/ processPeekWaiting
    \/ processPeekSize
    \/ processWake
    \/ wakeup
    \/ advanceClock
    \/ advanceOverflow
    \/ flushWaiting
    \/ flushUnlink
    \/ flushGo
    \/ flushEnd
    \/ \E p \in Stoppers, t \in Timers : Stop(p, t)
    \/ \E p \in Stoppers : removeCheck(p)
    \/ \E p \in Stoppers : removeWaiting(p)
    \/ \E p \in Stoppers : removeRecovered(p)
    \/ \E t \in Timers : Execute(t)

LockSpec == Init /\ [][LockNext]_vars

\* ------------------------------------------- the priority queue alone ----
\* newPriorityQueue(capacity): make(priorityQueue[T], 0, capacity)
newPriorityQueue(capacity) ==
    /\ pq' = <<>>
    /\ pqcap' = capacity
    /\ pqcall' = Nil
    /\ UNCHANGED <<now, cronVars, namedVars, panicVars, momentVars, driverVars,
                   loopVars, created, returned, timerVars, wheelVars,
                   bucketVars, qstate, qn, workerVars, calls, stops, execVars>>

\* DelayQueue.Add under q.mu: heap.Push(&q.priorityQueue, item), which calls
\* priorityQueue.Push and then up().
heapPush(b, priority, most) ==
    /\ Len(pq) < most
    /\ pq' = HeapPush(pq, [value |-> b, priority |-> priority])
    /\ pqcap' = PushCap(Len(pq), pqcap)
    /\ pqcall' = Nil
    /\ UNCHANGED <<now, cronVars, namedVars, panicVars, momentVars, driverVars,
                   loopVars, created, returned, timerVars, wheelVars,
                   bucketVars, qstate, qn, workerVars, calls, stops, execVars>>

\* process under q.mu: item, delta := q.priorityQueue.PeekAndShift(max);
\* heap.Remove ends with priorityQueue.Pop.
heapPeekAndShift(max) ==
    LET r == PeekAndShift(pq, max) IN
    /\ pq' = r[3]
    /\ pqcap' = IF Len(r[3]) < Len(pq) THEN PopCap(Len(pq), pqcap) ELSE pqcap
    /\ pqcall' = [max |-> max, before |-> pq, item |-> r[1], delta |-> r[2],
                  after |-> r[3], cap |-> pqcap]
    /\ UNCHANGED <<now, cronVars, namedVars, panicVars, momentVars, driverVars,
                   loopVars, created, returned, timerVars, wheelVars,
                   bucketVars, qstate, qn, workerVars, calls, stops, execVars>>

HeapNext ==
    \/ \E capacity \in PQCapacities : newPriorityQueue(capacity)
    \/ \E b \in {<<0, s>> : s \in Slots}, priority \in Priorities :
          heapPush(b, priority, MaxHeapLen)
    \/ \E max \in Priorities : heapPeekAndShift(max)

HeapSpec == Init /\ [][HeapNext]_vars

\* The priority queue grown further, for its capacity.
CapNext ==
    \/ \E capacity \in PQCapacities : newPriorityQueue(capacity)
    \/ \E priority \in CapPriorities : heapPush(<<0, 0>>, priority, MaxCapLen)
    \/ \E max \in CapPriorities : heapPeekAndShift(max)

CapSpec == Init /\ [][CapNext]_vars

\* ------------------------------------------------------ properties -----
\* A Stop call that has returned to its caller, with its result.
StopReturned(p) == stops[p].pc = "done" /\ stops[p].result \in {"true", "false"}

\* Some Stop call on t has returned true.
StoppedOK(t) == \E p \in Stoppers : stops[p].t = t /\ stops[p].result = "true"

\* Stop has been called on t.
StopCalled(t) == \E p \in Stoppers : stops[p].t = t /\ stops[p].pc # "idle"

\* t is linked in some bucket's list.
InSomeBucket(t) == \E b \in Buckets : \E i \in 1..Len(btimers[b]) : btimers[b][i][1] = t

\* A contract call on t that has not yet placed or dispatched it.
Offered(t) == \E c \in calls : c.t = t /\ c.pc \in {"contract", "add", "overflow"}

\* The scheduler has come to rest: no worker goroutine, no contract call in
\* progress, nobody inside Stop.  Only a further After or Loop can start the
\* worker again.
AtRest ==
    /\ ~Crashed
    /\ wpc = "none"
    /\ calls = {}
    /\ \A p \in Stoppers : stops[p].pc \in {"idle", "done"}

\* At rest, and no task function waiting for its goroutine or for its defer.
LoopAtRest ==
    /\ AtRest
    /\ \A t \in Timers : pending[t] = 0 /\ ~deferring[t]

\* C1: once a Stop call on a timer has returned true, the timer's task is
\* never started, whatever the driver does with the timer's bucket meanwhile.
C1_NoExecutionAfterStop ==
    [][\A t \in Timers : StoppedOK(t) => executed'[t] = executed[t]]_vars

\* C2: a one-shot timer is handed to the executor at most once, whatever
\* flushes, demotions and Stop calls take place.
C2_DispatchedAtMostOnce == \A t \in Timers : dispatched[t] <= 1

\* C2, the case: a timer that went through two buckets (a demotion) has been
\* dispatched, and a Stop call has returned meanwhile.
C2_Witness ==
    \E t \in Timers : /\ tpushes[t] >= 2
                       /\ dispatched[t] = 1
                       /\ \E p \in Stoppers : StopReturned(p)

\* C3: a task is never handed to the executor while the clock reads less than
\* the timer's expiration.
C3_NoEarlyFiring ==
    [][\A t \in Timers : dispatched'[t] > dispatched[t] => now >= texpiration[t]]_vars

\* C4, in the form a finite run refutes: once the scheduler has come to rest
\* and the clock has passed a timer's expiration, the timer has been
\* dispatched, if it was scheduled and Stop was never called on it.
C4_EventuallyDispatched ==
    AtRest => \A t \in Timers :
                 (created[t] /\ ~StopCalled(t) /\ texpiration[t] <= now)
                     => dispatched[t] > 0

\* C5: no Stop call panics, and at most one Stop call per timer returns true.
C5_StopIdempotent ==
    /\ ~Crashed
    /\ \A t \in Timers :
          Cardinality({p \in Stoppers : stops[p].t = t /\ stops[p].result = "true"}) <= 1

\* C6: a Stop call returns true exactly when it unlinked the timer from the
\* list that held it.
C6_TrueIffUnlinked ==
    \A p \in Stoppers : StopReturned(p) => (stops[p].result = "true" <=> stops[p].unlinked)

\* C7: after a Stop call has returned, whatever its result, the timer's
\* stopped flag is set.
C7_StoppedAfterStop ==
    \A p \in Stoppers : StopReturned(p) => tstopped[stops[p].t]

\* C8: once the stopped flag of a timer is set, the timer is neither handed
\* to the executor nor put into a bucket again.
C8_StoppedIsFinal ==
    [][\A t \in Timers :
          tstopped[t] => /\ dispatched'[t] = dispatched[t]
                         /\ tpushes'[t] = tpushes[t]]_vars

C10_ExactlyNTimes ==
    \A t \in LoopTimers :
        created[t] =>
            /\ invoked[t] <= lcount[t]
            /\ (invoked[t] = lcount[t] /\ lcount[t] > 0 /\ ~deferring[t])
                   => (~InSomeBucket(t) /\ ~Offered(t) /\ pending[t] = 0)
            /\ (LoopAtRest /\ texpiration[t] <= now) => invoked[t] = lcount[t]

\* The step that ends a run of t's task function, and whether that step
\* called contract for t again.
RunEnds(t) == deferring[t] /\ ~deferring'[t]
Rescheduled(t) == calls' # calls /\ NewCall(t, "defer", 0) \in calls'

C20_NonPositiveIntervalKeepsRunning ==
    [][\A t \in LoopTimers :
          (RunEnds(t) /\ linterval[t] < 0 /\ ltimes[t] # 0) => Rescheduled(t)]_vars

\* Some Stop call on t has returned to its caller.
StopDone(t) == \E p \in Stoppers : stops[p].t = t /\ StopReturned(p)

\* C12: once Stop has returned on a loop timer, the loop ends: the timer is
\* not placed in a bucket again and no further run is handed to the executor
\* (a run handed over before may still complete), whatever the driver and the
\* loop's own rescheduling were doing while Stop ran.
C12_LoopEndsAfterStop ==
    [][\A t \in LoopTimers :
          StopDone(t) => /\ tpushes'[t] = tpushes[t]
                         /\ dispatched'[t] = dispatched[t]]_vars

\* C13: each time a cron timer has fired, the end of the run gives it an
\* expiration strictly later than the one it fired at.
C13_NextExpirationLater ==
    [][\A t \in CronTimers :
          (RunEnds(t) /\ cexpr[t] # 0) => texpiration'[t] > texpiration[t]]_vars

\* C14: a Cron call with an expression that does not parse returns an error
\* and changes nothing: no timer is made, nothing is scheduled, and through
\* Named.Cron the registry keeps the timer the name holds, not stopped.
C14_InvalidCronChangesNothing ==
    [][cronErrs' # cronErrs =>
          /\ registry' = registry
          /\ nop' = nop
          /\ created' = created
          /\ calls' = calls
          /\ stops' = stops
          /\ timerVars' = timerVars
          /\ bucketVars' = bucketVars
          /\ queueVars' = queueVars
          /\ execVars' = execVars]_vars

\* Cron returned an error for a name that held a timer; the name still holds
\* it, linked in its bucket and with no Stop call on it.
C14_Witness ==
    \E e \in cronErrs :
        /\ e[2] # 0
        /\ registry[e[1]] = e[2]
        /\ InSomeBucket(e[2])
        /\ ~StopCalled(e[2])

\* t was stored under a name that now holds another timer, which has not
\* fired yet.
Replaced(t) ==
    /\ tname[t] # 0
    /\ registry[tname[t]] \notin {0, t}
    /\ dispatched[registry[tname[t]]] = 0

\* C15: registering under a name that holds a timer stops that timer first,
\* so of the timers stored under one name at most one can still fire: while
\* the name holds a newer timer that is still to fire, the timer it replaced
\* is not handed to the executor.
C15_ReplacedNeverFires ==
    [][\A t \in Timers : Replaced(t) => dispatched'[t] = dispatched[t]]_vars

\* The step in which contract call c hands its timer's task to the executor.
Dispatches(c) == c \notin calls' /\ dispatched'[c.t] > dispatched[c.t]

\* Calls c and d were started by flushes of top-level buckets, and d's timer
\* is still on its way to the executor.
BothFlushed(c, d) == c.by = "flush" /\ d.by = "flush" /\ d.t # c.t

\* C16: timers of one bucket are handed to the executor in the order of the
\* bucket's list: when a flushed timer is dispatched, no timer that stood
\* before it in the same list is still waiting to be dispatched.
C16_SameBucketInsertionOrder ==
    [][\A c \in calls : Dispatches(c) =>
          \A d \in calls :
              (/\ BothFlushed(c, d)
               /\ BucketOf(texpiration[d.t], 0) = BucketOf(texpiration[c.t], 0)
               /\ texpiration[d.t] = texpiration[c.t])
                  => d.d > c.d]_vars

\* C17: of two timers in different buckets of the top-level wheel, the one
\* whose bucket expires earlier is handed to the executor first: when a
\* flushed timer is dispatched, no flushed timer of an earlier bucket is
\* still waiting to be dispatched.
C17_EarlierBucketFirst ==
    [][\A c \in calls : Dispatches(c) =>
          \A d \in calls :
              (/\ BothFlushed(c, d)
               /\ BucketOf(texpiration[d.t], 0) # BucketOf(texpiration[c.t], 0))
                  => texpiration[d.t] > texpiration[c.t]]_vars

\* C19: a timer placed in an overflow wheel is put into a bucket of the
\* inner wheel before its task is dispatched: the contract call that the
\* flush of an overflow bucket starts does not end in a dispatch.
C19_DemotedBeforeDispatch ==
    [][\A c \in calls : c.by = "demote" => ~Dispatches(c)]_vars

\* C18: a task that panics does not stop the scheduler: once the panicking
\* run is over (a loop's deferred reschedule included), the program still
\* runs, so the driver goes on and later timers are dispatched.
C18_PanicDoesNotStopScheduler ==
    \A t \in Timers : (tpanic[t] /\ ~deferring[t]) => ~Crashed

\* C21: NextMoment(now, h, m, s) returns the first instant that shows the
\* time of day h:m:s (in the local zone) and is strictly after now: the
\* result shows h:m:s, it is after now, and the same time of day one day
\* earlier is not after now.
C21_FirstInstantAfterNow ==
    mcall # Nil =>
        /\ mcall.result.nsec = 0
        /\ ClockOf(mcall.result, mcall.local) =
               mcall.hour * HourSeconds + mcall.min * 60 + mcall.sec
        /\ TimeAfter(mcall.result, mcall.now)
        /\ ~TimeAfter(AddDays(mcall.result, 0 - 1), mcall.now)

\* C22: at most one goroutine is inside process() at any time, whatever Add
\* and Refresh calls run beside the goroutines' own changes of q.state.
C22_OneWorkerInProcess ==
    Cardinality({w \in WorkerIds : InProcess(w)}) <= 1

\* C22, the case: while one goroutine is inside process(), another one, which
\* left process() earlier and found q.n not zero, is about to try the
\* CompareAndSwap back to working.
C22_Witness ==
    \E w, v \in WorkerIds :
        /\ w # v
        /\ InProcess(w)
        /\ workers[v].pc = "cas"

\* Every call of DelayQueue.Add has returned: no call is between its push and
\* its return.
AddsReturned ==
    \A c \in calls : c.pc \notin {"queueWake", "queueN", "queueCancel"}

\* The heap holds an entry for a bucket that is not empty.
HeapHoldsWork == \E i \in 1..Len(pq) : Len(btimers[pq[i].value]) > 0

\* The step in which call c of DelayQueue.Add returns.
AddReturns(c) == c.pc \in {"queueWake", "queueCancel"} /\ c \notin calls'

\* C23: no wakeup is lost: an Add that races with the goroutine's return to
\* sleeping is noticed.  When a call of Add returns and every Add has then
\* returned, an entry of the heap whose bucket is not empty has a wakeup
\* goroutine to process it: the queue is not left sleeping without one.
C23_NoLostWakeup ==
    [][\A c \in calls :
          (AddReturns(c) /\ AddsReturned' /\ HeapHoldsWork')
              => \E w \in WorkerIds : workers'[w].pc # "none"]_vars
\* Goroutine w waits in the select of process() on a context that nobody has
\* cancelled: it goes on only when the timeout of that context passes.
WaitsUncancelled(w) ==
    /\ workers[w].pc = "sleep"
    /\ workers[w].ctx = "field"
    /\ wakeupCtx = "armed"

\* The heap holds an entry that expires before the head goroutine w peeked.
EarlierThanPeeked(w) ==
    \E i \in 1..Len(pq) : pq[i].priority < workers[w].item.priority

\* C24: when Add has inserted an item while the goroutine is active, the
\* goroutine peeks the heap again before it waits any further: once every Add
\* has returned, it does not wait, uncancelled, for the head it peeked before
\* while the heap holds an entry that expires earlier, whichever way Add's
\* cancel interleaves with the arming of the wait.
C24_RepeekAfterAdd ==
    AddsReturned =>
        \A w \in WorkerIds : WaitsUncancelled(w) => ~EarlierThanPeeked(w)


\* Goroutine w takes a step from position a of process() to position b.
WorkerStep(w, a, b) == workers[w].pc = a /\ workers'[w].pc = b

\* The head goroutine w holds is nil or its bucket is empty.
NothingToProcess(w) ==
    \/ workers[w].item = Nil
    \/ Len(btimers[workers[w].item.value]) = 0

TimersOf(b) == {btimers[b][i][1] : i \in 1..Len(btimers[b])}

\* C26: at every quiescent point and at every wheel level, each timer held in
\* a non-empty bucket has its expiration, truncated to the tick of the
\* bucket's level, equal to the bucket's expiration.
C26_BucketExpirationTruncated ==
    AtRest => \A b \in Buckets : \A t \in TimersOf(b) :
                 Truncate(texpiration[t], TickOf(b[1])) = bexpiration[b]


\* What a call of add at one level does in the step that leaves the test of
\* its three branches.  False is returned to contract, which hands the task
\* to the executor, and no bucket is touched:
AddReturnsFalse(c) ==
    /\ calls' = calls \ {c}
    /\ dispatched' = [dispatched EXCEPT ![c.t] = @ + 1]
    /\ btimers' = btimers
\* the timer is pushed at the back of buckets[(e / tick) mod size] of this
\* level, and the call goes on to the end of the branch, which returns true:
AddPlaces(c) ==
    \E k \in 1..(tpushes[c.t] + 1) :
        /\ calls' = Replace(c, [c EXCEPT !.pc = "setBucket",
                                         !.exp = texpiration[c.t], !.k = k])
        /\ btimers' = [btimers EXCEPT ![<<c.lvl, SlotOf(texpiration[c.t], c.lvl)>>]
                                          = Append(@, <<c.t, k>>)]
        /\ dispatched' = dispatched
\* the call turns to the overflow wheel.
AddDelegates(c) ==
    /\ \E d \in calls' : d.t = c.t /\ d.pc = "overflow" /\ d.lvl = c.lvl
                            /\ calls' = Replace(c, d)
    /\ btimers' = btimers
    /\ dispatched' = dispatched

\* C27: add, with c the level's current and e the timer's expiration, returns
\* false without touching a bucket iff e < c + tick; places the timer in
\* buckets[(e / tick) mod size] of the level and returns true iff
\* c + tick <= e < c + interval; and otherwise delegates to the overflow
\* wheel, whose result is the call's.
C27_AddBranches ==
    [][\A c \in calls :
          (c.pc = "add" /\ c \notin calls') =>
              LET e == texpiration[c.t]
                  cur == current[c.lvl]
              IN  /\ AddReturnsFalse(c) <=> e < cur + TickOf(c.lvl)
                  /\ AddPlaces(c) <=> (e >= cur + TickOf(c.lvl)
                                         /\ e < cur + Interval(c.lvl))
                  /\ AddDelegates(c) <=> e >= cur + Interval(c.lvl)]_vars

\* All three branches have been taken: one timer was returned as expired
\* without ever being in a bucket, another went through the overflow wheel
\* and is in one of its buckets.
C27_Witness ==
    \E t, u \in Timers :
        /\ dispatched[t] >= 1 /\ tpushes[t] = 0
        /\ tbucket[u] # Nil /\ tbucket[u][1] = 1
        /\ \E i \in 1..Len(btimers[tbucket[u]]) : btimers[tbucket[u]][i][1] = u


\* Wheel level l exists: the top-level wheel, or an overflow wheel that has
\* been built.
WheelExists(l) == l = 0 \/ overflow[l - 1]

\* C28: at every wheel level and in every reachable state, current is a
\* multiple of the level's tick, from init onwards and after every
\* advanceClock.
C28_CurrentOnTick ==
    \A l \in Levels : WheelExists(l) => GoRem(current[l], TickOf(l)) = 0

\* The overflow wheel has been advanced by an expiration that is not on its
\* tick: the wheel above it stands at an odd time.
C28_Witness ==
    /\ WheelExists(1)
    /\ GoRem(current[0], TickOf(1)) # 0
    /\ current[1] > Truncate(StartMs, TickOf(1))


\* The levels that can have an overflow wheel within the horizon.
ParentLevels == {l \in Levels : l + 1 \in Levels}

\* A call builds the overflow wheel of level l in this step: it is in the
\* third branch of that level's add, and the new wheel starts at the current
\* the call loaded, truncated to the new wheel's tick.
BuildsOverflow(l) ==
    \E c \in calls :
        /\ c.pc = "overflow" /\ c.lvl = l
        /\ c \notin calls'
        /\ current'[l + 1] = Truncate(c.cur, Interval(l))

\* The driver advances the overflow wheel of level l in this step.
AdvancesOverflow(l) ==
    /\ wpc = "advance" /\ wlvl = l + 1
    /\ current'[l + 1] = Truncate(wx, Interval(l))

\* C29: each level creates its overflow wheel at most once, also when several
\* far-future timers are added concurrently; the overflow wheel's tick is the
\* parent's interval, with the same size; once created it is never replaced
\* or removed.  A wheel comes into being only by a build, with nothing there
\* before; once there it stays, and its current moves only when the driver
\* advances it, never by another build.
C29_OverflowCreatedOnce ==
    [][\A l \in ParentLevels :
          /\ TickOf(l + 1) = Interval(l)
          /\ Interval(l + 1) = Interval(l) * WheelSize
          /\ overflow[l] => overflow'[l]
          /\ (~overflow[l] /\ overflow'[l]) => BuildsOverflow(l)
          /\ (~overflow[l] /\ ~overflow'[l]) => current'[l + 1] = current[l + 1]
          /\ (overflow[l] /\ current'[l + 1] # current[l + 1])
                => AdvancesOverflow(l)
          /\ \A c \in calls :
                (c.pc = "overflow" /\ c.lvl = l /\ c \notin calls' /\ overflow[l])
                    => /\ current'[l + 1] = current[l + 1]
                       /\ bucketVars' = bucketVars]_vars

\* Two far-future timers are being added at once: the first call has built
\* the overflow wheel and is inside its add, the second, which had found the
\* timer beyond the interval as well, waits for the lock.
C29_Witness ==
    \E c, d \in calls :
        /\ c.t # d.t
        /\ overflow[0]
        /\ c.pc = "add" /\ c.lvl = 1
        /\ d.pc = "overflow" /\ d.lvl = 0


\* How many elements of bucket b's list hold timer t.
TimesIn(t, b) == Cardinality({i \in 1..Len(btimers[b]) : btimers[b][i][1] = t})

\* No call is between bucketImpl.add's PushBack of t and the end of
\* timer.setBucket, the two stores that follow it.
NotBeingLinked(t) ==
    \A c \in calls : c.t = t => c.pc \notin {"setBucket", "setElement"}

\* C30: whenever a timer's bucket reference is non-null, that bucket's list
\* contains the timer exactly once and the timer's list element belongs to
\* that list; a timer is never linked in a bucket list while its bucket
\* reference is null or names another bucket, so it is in at most one list.
\* Stated for the timers that no add is in the middle of linking.
C30_BucketReferenceMatchesList ==
    \A t \in Timers : NotBeingLinked(t) =>
        /\ tbucket[t] # Nil =>
              /\ TimesIn(t, tbucket[t]) = 1
              /\ \E i \in 1..Len(btimers[tbucket[t]]) :
                    btimers[tbucket[t]][i] = telement[t]
        /\ \A b \in Buckets : TimesIn(t, b) > 0 => tbucket[t] = b


\* C31: once a timer's task has begun executing, the timer's bucket reference
\* is null, under every interleaving of a producer's bucket.add with the
\* driver's flush.  The timers are one-shot: nobody schedules one again.
C31_NoBucketOnceExecuted ==
    \A t \in Timers : executed[t] > 0 => tbucket[t] = Nil


\* C32: flush offers every timer that was in the bucket to the reinserter
\* exactly once, each with its bucket reference already cleared, and when
\* flush completes the bucket's list is empty and its expiration is -1.
\* While the flush holds the bucket, the list changes only by the loop
\* unlinking its first element, whose timer is the next one offered; the
\* offer starts one goroutine for that timer, whose reference is null then;
\* the flush ends on an empty list and leaves the expiration at -1.
C32_FlushOffersEachOnce ==
    [][/\ (FlushHolds(witem) /\ btimers'[witem] # btimers[witem])
             => /\ wpc = "flushLoop" /\ wpc' = "flushGo"
                /\ btimers'[witem] = Tail(btimers[witem])
                /\ wx' = Head(btimers[witem])[1]
       /\ (wpc = "flushGo" /\ wpc' # "flushGo")
             => /\ tbucket[wx] = Nil
                /\ NewCall(wx, "flush", 0) \notin calls
                /\ calls' = calls \cup {NewCall(wx, "flush", 0)}
       /\ (wpc = "flushLoop" /\ wpc' = "peek")
             => /\ btimers'[witem] = <<>>
                /\ bexpiration'[witem] = 0 - 1]_vars


\* How many entries of heap h are the item x.
CountIn(h, x) == Cardinality({i \in 1..Len(h) : h[i] = x})

\* Heap a is heap b with one entry x taken out.
Without(a, b, x) ==
    /\ Len(a) = Len(b) - 1
    /\ \A i \in 1..Len(b) :
          CountIn(a, b[i]) = CountIn(b, b[i]) - (IF b[i] = x THEN 1 ELSE 0)

C34_HeadIsMinimum ==
    \A i \in 1..Len(pq) : pq[1].priority <= pq[i].priority

\* A head has just been removed from a heap that held two entries for the
\* same bucket with different expirations, and entries remain on both sides
\* of the root.
C34_Witness ==
    /\ pqcall # Nil
    /\ Len(pqcall.after) < Len(pqcall.before)
    /\ Len(pq) >= 3
    /\ pq[2].priority # pq[3].priority
    /\ \E i, j \in 1..Len(pqcall.before) :
          /\ i # j
          /\ pqcall.before[i].value = pqcall.before[j].value
          /\ pqcall.before[i].priority # pqcall.before[j].priority


\* A step of priorityQueue.Push, of priorityQueue.Pop.
PushStep == Len(pq') = Len(pq) + 1
PopStep == pqcall' # Nil /\ Len(pq') = Len(pq) - 1

\* C35, as stated: the capacity doubles on a push that would exceed it, and
\* on a pop it is halved only when the length is below one quarter of the
\* capacity and the capacity exceeds 25; in every state length <= capacity.
C35_CapacityQuarter ==
    [][/\ PushStep => pqcap' = (IF Len(pq) + 1 > pqcap THEN 2 * pqcap ELSE pqcap)
       /\ (PopStep /\ pqcap' # pqcap)
             => /\ pqcap' = GoDiv(pqcap, 2)
                /\ 4 * Len(pq) < pqcap
                /\ pqcap > 25
       /\ Len(pq') <= pqcap']_vars

\* C35, amended: on a pop the capacity is halved exactly when the length is
\* below one half of the capacity (n < c/2 in integers) and the capacity
\* exceeds 25, and is otherwise left alone; the rest as stated.
C35_CapacityHalf ==
    [][/\ PushStep => pqcap' = (IF Len(pq) + 1 > pqcap THEN 2 * pqcap ELSE pqcap)
       /\ PopStep
             => pqcap' = (IF Len(pq) < GoDiv(pqcap, 2) /\ pqcap > 25
                          THEN GoDiv(pqcap, 2) ELSE pqcap)
       /\ Len(pq') <= pqcap']_vars

\* A pop has halved the capacity of a queue that was at least one quarter
\* full.
C35_Witness ==
    /\ pqcall # Nil
    /\ Len(pqcall.after) < Len(pqcall.before)
    /\ pqcap < pqcall.cap
    /\ 4 * Len(pqcall.before) >= pqcall.cap

\* The heap holds an entry for bucket b under the bucket's present
\* expiration.
LiveEntry(b) ==
    \E i \in 1..Len(pq) : pq[i].value = b /\ pq[i].priority = bexpiration[b]

\* C36: whenever the scheduler is at rest, every non-empty bucket has an
\* entry in the DelayQueue heap whose priority is the bucket's expiration, so
\* a timer resting in a bucket is going to be flushed.
C36_RestingBucketQueued ==
    AtRest => \A b \in Buckets : Len(btimers[b]) > 0 => LiveEntry(b)

\* C37: no wheel level's current exceeds the present time of the injected
\* clock: the driver advances the clocks only up to the expiration of an entry
\* that was due when it was dequeued.
C37_CurrentNotAhead ==
    \A l \in Levels : WheelExists(l) => current[l] <= now

\* The driver's advanceClock(x) at the top level stores truncate(x, tick)
\* and goes on to the overflow wheel with that value.
AdvancesTop ==
    /\ wpc = "handler"
    /\ bexpiration[witem] >= current[0] + Tick
    /\ current'[0] = Truncate(bexpiration[witem], Tick)
    /\ wpc' = "advance" /\ wlvl' = 1 /\ wx' = current'[0]

\* The same call on the overflow wheel of level l, reached from the level
\* below with that level's new current.
AdvancesLevel(l) ==
    /\ wpc = "advance" /\ wlvl = l
    /\ wx >= current[l] + TickOf(l)
    /\ current'[l] = Truncate(wx, TickOf(l))
    /\ wpc' = "advance" /\ wlvl' = l + 1 /\ wx' = current'[l]

\* C38: the current of a wheel changes only in advanceClock(x) with
\* x >= current + tick, which sets it to truncate(x, tick) and then advances
\* the overflow wheel; a call with a smaller x leaves it alone; so no level's
\* current ever decreases.
C38_AdvanceClock ==
    [][/\ \A l \in Levels :
            WheelExists(l) =>
              /\ current'[l] # current[l]
                    => IF l = 0 THEN AdvancesTop ELSE AdvancesLevel(l)
              /\ current'[l] >= current[l]
       /\ (wpc = "handler" /\ wpc' # "handler")
             => (current'[0] # current[0]
                    <=> bexpiration[witem] >= current[0] + Tick)]_vars

\* The driver has just advanced the overflow wheel past the current it was
\* built with, after advancing the top level.
C38_Witness ==
    /\ wpc = "advance" /\ wlvl = 2
    /\ overflow[0]
    /\ current[1] = wx
    /\ current[1] > Truncate(StartMs, TickOf(1))
    /\ current[0] >= current[1]

\* A goroutine stands at the Lock or RLock of b.rw: the driver about to flush
\* b or inside b.Size(), or a Stop call past remove's unlocked check.
WaitsForBucket(b) ==
    \/ wpc \in {"flush", "size"} /\ witem = b
    \/ \E p \in Stoppers : stops[p].pc = "lock" /\ stops[p].b = b

\* C39: deadlock freedom, as far as the bucket locks go: no goroutine waits
\* for a bucket lock that nobody is ever going to release.
C39_NoThreadBlockedForever ==
    \A b \in Buckets : LockLeft(b) => ~WaitsForBucket(b)


====
